---- MODULE Spec2Model ----
(***************************************************************************)
(* asus-router-prometheus-exporter: the polling loop of create_app.app,    *)
(* RouterMetricsCollector.collect_all_metrics and the handlers it calls,   *)
(* with the delta reconciliation of the CPU and network counters.          *)
(*                                                                         *)
(* Python ints are unbounded; every value used here stays far below 2^31,  *)
(* and powers of two such as 2^32 are never built: they are recognised by  *)
(* repeated halving (IsTwoToThe, FitsWidth).  The float of the CPU percent *)
(* gauge is kept as the exact fraction num/den it rounds.  A Counter child *)
(* that was never touched reads 0.                                         *)
(***************************************************************************)
EXTENDS Integers, Sequences, FiniteSets, TLC

VARIABLES
    pc,                       \* where the exporter's main thread is
    cycle,                    \* polling cycles started so far
    router_info,              \* RouterMetricsCollector.router_info
    outcome,                  \* per domain: what its handler did in this cycle
    scrape_errors_total,      \* Counter asus_router_scrape_errors_total
    cpu_temp,                 \* Gauge asus_router_cpu_temperature_celsius
    memory_gauges,            \* the four memory gauges
    cpu_infos,                \* what client.get_cpu_usage() last returned
    previous_cpu_samples,     \* dict cpu_id -> {"usage", "total"}
    cpu_usage_counter,        \* Counter asus_router_cpu_usage, per cpu_id
    cpu_total_counter,        \* Counter asus_router_cpu_total, per cpu_id
    cpu_usage_percent_gauge,  \* Gauge asus_router_cpu_usage_percent, per cpu_id
    netdev_info,              \* what client.get_netdev() last returned
    previous_network_samples, \* dict: {} or bridge/wired/internet/wireless
    tx_bytes,                 \* Counters *_tx_bytes, per series
    rx_bytes,                 \* Counters *_rx_bytes, per series
    ui_support,               \* the router's get_ui_support map, as it is now
    caps_used,                \* per gate: the capabilities it used this cycle
    wan_nvram,                \* what the router last answered the WAN handler
    net_wan_info,             \* what client.get_network_wan_info() last did
    reboot_nvram,             \* the router's reboot_schedule_enable, reboot_schedule
    systime,                  \* the router's clock, as get_uptime() reads it
    reboot_schedule,          \* RouterInfo.reboot_schedule of the last get_info()
    next_reboot_seconds,      \* Gauge asus_router_reboot_schedule_second_until_next
    router_mode,              \* Gauge asus_router_sw_mode: its children's values
    wans,                     \* the WAN gauges: their children's values
    pending,                  \* set() calls the WAN handler has yet to make
    scraped,                  \* the WAN gauges as the last scrape exposed them
    wireless_info,            \* what client.get_wireless_info() last returned
    wl_band_info              \* the wl_unit labels that have a band series

vars == <<pc, cycle, router_info, outcome, scrape_errors_total, cpu_temp,
          memory_gauges, cpu_infos, previous_cpu_samples, cpu_usage_counter,
          cpu_total_counter, cpu_usage_percent_gauge, netdev_info,
          previous_network_samples, tx_bytes, rx_bytes, ui_support,
          caps_used, wan_nvram, net_wan_info, reboot_nvram, systime,
          reboot_schedule, next_reboot_seconds, router_mode, wans, pending,
          scraped, wireless_info, wl_band_info>>

cpuVars == <<cpu_infos, previous_cpu_samples, cpu_usage_counter,
             cpu_total_counter, cpu_usage_percent_gauge>>

netVars == <<netdev_info, previous_network_samples, tx_bytes, rx_bytes>>

gaugeVars == <<cpu_temp, memory_gauges>>

wanVars == <<wan_nvram, net_wan_info>>

rebootVars == <<reboot_nvram, systime, reboot_schedule, next_reboot_seconds>>

publishVars == <<router_mode, wans, pending, scraped>>

wifiVars == <<wireless_info, wl_band_info>>

(***************************************************************************)
(* Bounds and input sets.                                                  *)
(***************************************************************************)
MaxCycles == 2

MaxEngineCycles == 3

MaxGateCycles == 2

MaxWanCycles == 1

MaxRebootCycles == 1

MaxProtoCycles == 1

MaxScrapeCycles == 2

CpuIds == {0, 1}

\* CpuInfo records the router may report for one core
CpuSamples ==
    { [usage |-> 100, total |-> 200], [usage |-> 150, total |-> 250],
      [usage |-> 90,  total |-> 260], [usage |-> 80,  total |-> 240] }

\* the list get_cpu_usage returns: one CpuInfo per core, cores numbered from 0
CpuLists ==
    UNION { [1..n -> CpuSamples] : n \in 0..Cardinality(CpuIds) }

IfaceIds == {0}

NetVals == {1, 2}

Max(a, b) == IF a >= b THEN a ELSE b

Min(a, b) == IF a <= b THEN a ELSE b


\* the series of the tx/rx byte counters: bridge and wired carry no interface id
Series ==
    ({"bridge", "wired"} \X {0}) \cup ({"internet", "wireless"} \X IfaceIds)

\* ThroughputInfo records the router may report for one interface
ThroughputInfos ==
    { th \in [total_upload_bytes : NetVals, total_download_bytes : NetVals] :
        th.total_upload_bytes # th.total_download_bytes }

\* dict interface id -> ThroughputInfo, over any subset of the ids
IfaceMaps == UNION { [ids -> ThroughputInfos] : ids \in SUBSET IfaceIds }

NetdevInfos ==
    [bridge : ThroughputInfos, wired : ThroughputInfos,
     internet : IfaceMaps, wireless : IfaceMaps]

\* a fetch either raises (transport, auth or decode error) or returns a value
CpuRaised == [st |-> "raised", cpus |-> << >>]

CpuResults == {CpuRaised} \cup { [st |-> "ok", cpus |-> l] : l \in CpuLists }

NetRaised == [st |-> "raised"]

NetResults ==
    {NetRaised} \cup
    { [st |-> "ok", bridge |-> n.bridge, wired |-> n.wired,
       internet |-> n.internet, wireless |-> n.wireless] : n \in NetdevInfos }

(***************************************************************************)
(* Gauge values: a child that was never set is absent; NaN; or num/den.    *)
(***************************************************************************)
Absent == [kind |-> "absent", num |-> 0, den |-> 1]

NaN == [kind |-> "nan", num |-> 0, den |-> 1]

Num(n, d) == [kind |-> "num", num |-> n, den |-> d]

(***************************************************************************)
(* RouterMetricsCollector._calculate_delta                                 *)
(***************************************************************************)
\* slip: the previous value is not subtracted
_calculate_delta_no_baseline(current, previous) ==
    IF current >= previous THEN current ELSE 0

\* slip: the comparison guarding the subtraction is missing
_calculate_delta_unguarded(current, previous) == current - previous

_calculate_delta(current, previous) ==
    IF current >= previous THEN current - previous ELSE 0

\* slip: 0 instead of NaN when the total did not advance
UsagePercent_zero(du, dt) ==
    IF dt > 0
    THEN IF du * 100 >= 100 * dt THEN [kind |-> "num", num |-> 100, den |-> 1]
         ELSE IF du * 100 <= 0 THEN [kind |-> "num", num |-> 0, den |-> 1]
         ELSE [kind |-> "num", num |-> du * 100, den |-> dt]
    ELSE [kind |-> "num", num |-> 0, den |-> 1]

\* pct = max(0.0, min(100.0, (du / dt) * 100.0)) if dt > 0, else NaN
UsagePercent(du, dt) ==
    IF dt > 0
    THEN IF du * 100 >= 100 * dt THEN Num(100, 1)
         ELSE IF du * 100 <= 0 THEN Num(0, 1)
         ELSE Num(du * 100, dt)
    ELSE NaN

\* slip: the two directions are stored crosswise
ThroughputSample_swapped(th) ==
    [tx |-> th.total_download_bytes, rx |-> th.total_upload_bytes]

\* ThroughputSample(tx=..., rx=...)
ThroughputSample(th) ==
    [tx |-> th.total_upload_bytes, rx |-> th.total_download_bytes]

_create_network_samples(netdev) ==
    [bridge   |-> ThroughputSample(netdev.bridge),
     wired    |-> ThroughputSample(netdev.wired),
     internet |-> [i \in DOMAIN netdev.internet |->
                      ThroughputSample(netdev.internet[i])],
     wireless |-> [w \in DOMAIN netdev.wireless |->
                      ThroughputSample(netdev.wireless[w])]]

\* the (tx, rx) increments of a bridge or wired interface
_collect_simple_interface_metrics(current_throughput, prev_throughput) ==
    [tx |-> _calculate_delta(current_throughput.total_upload_bytes,
                             prev_throughput.tx),
     rx |-> _calculate_delta(current_throughput.total_download_bytes,
                             prev_throughput.rx)]

\* slip: an interface without a previous sample is measured from zero
_update_interface_metrics_from_zero(interfaces, prev_interfaces) ==
    [i \in DOMAIN interfaces |->
        IF i \in DOMAIN prev_interfaces
        THEN [tx |-> interfaces[i].total_upload_bytes - prev_interfaces[i].tx,
              rx |-> interfaces[i].total_download_bytes
                        - prev_interfaces[i].rx]
        ELSE [tx |-> interfaces[i].total_upload_bytes,
              rx |-> interfaces[i].total_download_bytes]]

\* the (tx, rx) increments of every interface of the current snapshot
_update_interface_metrics(interfaces, prev_interfaces) ==
    [i \in DOMAIN interfaces |->
        IF i \in DOMAIN prev_interfaces
        THEN [tx |-> _calculate_delta(interfaces[i].total_upload_bytes,
                                      prev_interfaces[i].tx),
              rx |-> _calculate_delta(interfaces[i].total_download_bytes,
                                      prev_interfaces[i].rx)]
        ELSE [tx |-> 0, rx |-> 0]]

\* slip: the counter is set to the amount
Inc_set(value, amount) == amount

\* Counter.inc(amount) of one labelled child
Inc(value, amount) == value + amount

(***************************************************************************)
(* RouterMetricsCollector._collect_cpu_metrics, res being what             *)
(* client.get_cpu_usage() does in this call.                               *)
(***************************************************************************)
\* slip: a fetch that raised also drops the stored samples
_collect_cpu_metrics_dropping(res) ==
    /\ cpu_infos' = res
    /\ IF res.st = "raised"
       THEN /\ previous_cpu_samples' = << >>
            /\ UNCHANGED <<cpu_usage_counter, cpu_total_counter,
                           cpu_usage_percent_gauge>>
       ELSE LET ids == { i - 1 : i \in 1..Len(res.cpus) }
                prev == previous_cpu_samples
                du(c) == _calculate_delta(res.cpus[c + 1].usage, prev[c].usage)
                dt(c) == _calculate_delta(res.cpus[c + 1].total, prev[c].total)
            IN  /\ cpu_usage_counter' =
                     [c \in CpuIds |->
                        IF c \in ids /\ c \in DOMAIN prev
                        THEN Inc(cpu_usage_counter[c], Max(0, du(c)))
                        ELSE cpu_usage_counter[c]]
                /\ cpu_total_counter' =
                     [c \in CpuIds |->
                        IF c \in ids /\ c \in DOMAIN prev
                        THEN Inc(cpu_total_counter[c], Max(0, dt(c)))
                        ELSE cpu_total_counter[c]]
                /\ cpu_usage_percent_gauge' =
                     [c \in CpuIds |->
                        IF c \in ids
                        THEN IF c \in DOMAIN prev
                             THEN UsagePercent(du(c), dt(c))
                             ELSE NaN
                        ELSE cpu_usage_percent_gauge[c]]
                /\ previous_cpu_samples' =
                     [c \in (DOMAIN prev) \cup ids |->
                        IF c \in ids
                        THEN [usage |-> res.cpus[c + 1].usage,
                              total |-> res.cpus[c + 1].total]
                        ELSE prev[c]]

_collect_cpu_metrics(res) ==
    /\ cpu_infos' = res
    /\ IF res.st = "raised"
       THEN UNCHANGED <<previous_cpu_samples, cpu_usage_counter,
                        cpu_total_counter, cpu_usage_percent_gauge>>
       ELSE LET ids == { i - 1 : i \in 1..Len(res.cpus) }
                prev == previous_cpu_samples
                du(c) == _calculate_delta(res.cpus[c + 1].usage, prev[c].usage)
                dt(c) == _calculate_delta(res.cpus[c + 1].total, prev[c].total)
            IN  /\ cpu_usage_counter' =
                     [c \in CpuIds |->
                        IF c \in ids /\ c \in DOMAIN prev
                        THEN Inc(cpu_usage_counter[c], Max(0, du(c)))
                        ELSE cpu_usage_counter[c]]
                /\ cpu_total_counter' =
                     [c \in CpuIds |->
                        IF c \in ids /\ c \in DOMAIN prev
                        THEN Inc(cpu_total_counter[c], Max(0, dt(c)))
                        ELSE cpu_total_counter[c]]
                /\ cpu_usage_percent_gauge' =
                     [c \in CpuIds |->
                        IF c \in ids
                        THEN IF c \in DOMAIN prev
                             THEN UsagePercent(du(c), dt(c))
                             ELSE NaN
                        ELSE cpu_usage_percent_gauge[c]]
                /\ previous_cpu_samples' =
                     [c \in (DOMAIN prev) \cup ids |->
                        IF c \in ids
                        THEN [usage |-> res.cpus[c + 1].usage,
                              total |-> res.cpus[c + 1].total]
                        ELSE prev[c]]

(***************************************************************************)
(* RouterMetricsCollector._collect_network_metrics, res being what         *)
(* client.get_netdev() does in this call.                                  *)
(***************************************************************************)
_collect_network_metrics(res) ==
    /\ netdev_info' = res
    /\ IF res.st = "raised"
       THEN UNCHANGED <<previous_network_samples, tx_bytes, rx_bytes>>
       ELSE IF DOMAIN previous_network_samples = {}
       THEN /\ previous_network_samples' = _create_network_samples(res)
            /\ UNCHANGED <<tx_bytes, rx_bytes>>
       ELSE LET prev == previous_network_samples
                bridge == _collect_simple_interface_metrics(res.bridge,
                                                            prev.bridge)
                wired == _collect_simple_interface_metrics(res.wired,
                                                           prev.wired)
                internet == _update_interface_metrics(res.internet,
                                                      prev.internet)
                wireless == _update_interface_metrics(res.wireless,
                                                      prev.wireless)
                delta(s) ==
                    IF s[1] = "bridge" THEN bridge
                    ELSE IF s[1] = "wired" THEN wired
                    ELSE IF s[1] = "internet"
                    THEN IF s[2] \in DOMAIN internet THEN internet[s[2]]
                         ELSE [tx |-> 0, rx |-> 0]
                    ELSE IF s[2] \in DOMAIN wireless THEN wireless[s[2]]
                         ELSE [tx |-> 0, rx |-> 0]
            IN  /\ tx_bytes' = [s \in Series |-> Inc(tx_bytes[s], delta(s).tx)]
                /\ rx_bytes' = [s \in Series |-> Inc(rx_bytes[s], delta(s).rx)]
                /\ previous_network_samples' = _create_network_samples(res)

\* slip: a missing value is published as 0
_set_gauge_safe_zero(value) ==
    IF value.kind = "num" THEN value ELSE [kind |-> "num", num |-> 0, den |-> 1]

\* float(value) if value is not None and not math.isnan(value) else NaN
_set_gauge_safe(value) ==
    IF value.kind = "num" THEN value ELSE NaN

\* float(kb) * 1024.0
_kb_to_bytes(kb) == Num(kb * 1024, 1)

(***************************************************************************)
(* Raw nvram strings, Python's int() and the Enum constructors.            *)
(***************************************************************************)
\* the strings int() accepts, with the value it returns; on every other
\* string it raises ValueError
IntValues ==
    ("0" :> 0) @@ ("1" :> 1) @@ ("2" :> 2) @@ ("3" :> 3) @@ ("4" :> 4) @@
    ("5" :> 5) @@ ("9" :> 9)

IntRaises(s) == s \notin DOMAIN IntValues

int(s) == IntValues[s]

\* int(value), and 0 on ValueError
safe_int(value) == IF IntRaises(value) THEN 0 ELSE int(value)

\* the members of the Enum classes, by value
WanState ==
    (0 :> "IDLE") @@ (1 :> "CONNECTING") @@ (2 :> "CONNECTED") @@
    (4 :> "ERROR") @@ (5 :> "DISABLED")

WanSubState ==
    (0 :> "OK") @@ (1 :> "PPP_FAIL") @@ (2 :> "BAD_CREDENTIALS") @@
    (3 :> "DHCP_FAIL") @@ (4 :> "IP_CONFLICT")

WanAuxState == (0 :> "CONNECTED") @@ (1 :> "DISCONNECTED")

LinkInternet == (0 :> "OFFLINE") @@ (1 :> "TESTING") @@ (2 :> "ONLINE")

WanMode == ("fo" :> "FAIL_OVER") @@ ("fb" :> "FAIL_BACK") @@
           ("lb" :> "LOAD_BALANCE")

DualWanOrigin == {"none", "wan", "lan", "usb", "dsl"}

WanProtoType ==
    ("dhcp" :> "DHCP") @@ ("static" :> "STATIC") @@ ("l2tp" :> "L2TP") @@
    ("pptp" :> "PPTP") @@ ("lw4o6" :> "Lw4o6") @@ ("map-e" :> "MAP_E") @@
    ("v6plus" :> "V6PLUS") @@ ("pppoa" :> "PPPoA") @@ ("ipoa" :> "IPoA") @@
    ("pppoe" :> "PPPoE") @@ ("ipoe" :> "IPoE") @@ ("ocnvc" :> "OCNVC") @@
    ("dslite" :> "DSLITE") @@ ("v6opt" :> "V6OPT") @@ ("usb" :> "USB")

WanDslProtoType ==
    ("pppoa" :> "PPPoA") @@ ("ipoa" :> "IPoA") @@ ("pppoe" :> "PPPoE") @@
    ("ipoe" :> "IPoE")

DslTransMode == ("atm" :> "ATM") @@ ("ptm" :> "PTM")

\* member.value
ValueOf(enum, member) == CHOOSE v \in DOMAIN enum : enum[v] = member

WanStatus == {"standby", "connected", "disconnected"}

SwMode == {"re", "ap", "MB", "ew2", "ew5", "hs", "rt"}

\* Enum(int(raw)) raises ValueError: raw is no integer or no member's value
EnumRaises(enum, raw) == IntRaises(raw) \/ int(raw) \notin DOMAIN enum

(***************************************************************************)
(* RouterFeatureCapabilities: caps maps feature names to integer flags.    *)
(***************************************************************************)
\* slip: a key that is present counts as supported whatever its flag
is_supported_present(caps, f) == f \in DOMAIN caps

\* bool(self.caps.get(f, 0))
is_supported(caps, f) == IF f \in DOMAIN caps THEN caps[f] # 0 ELSE FALSE

\* slip: the capabilities of an earlier call are kept and handed out again
get_supported_features_cached ==
    IF \E g \in DOMAIN caps_used : caps_used[g].st = "ok"
    THEN caps_used[CHOOSE g \in DOMAIN caps_used : caps_used[g].st = "ok"].caps
    ELSE ui_support

\* every call asks the router for its get_ui_support map
get_supported_features == ui_support

(***************************************************************************)
(* RouterClient.get_sw_mode: an if/elif chain over the three integers.     *)
(***************************************************************************)
\* slip: the Repeater rule does not look at wlc_express
SwModeRules_loose(sw_mode, wlc_psta, wlc_express) ==
    << [mode |-> "re",
        cond |-> (sw_mode = 2 /\ wlc_psta = 0) \/ (sw_mode = 3 /\ wlc_psta = 2)],
       [mode |-> "ap", cond |-> sw_mode = 3 /\ wlc_psta = 0],
       [mode |-> "MB",
        cond |-> \/ (sw_mode = 3 /\ wlc_psta \in {1, 3} /\ wlc_express = 0)
                 \/ (sw_mode = 2 /\ wlc_psta = 1 /\ wlc_express = 0)],
       [mode |-> "ew2",
        cond |-> sw_mode = 2 /\ wlc_psta = 0 /\ wlc_express = 1],
       [mode |-> "ew5",
        cond |-> sw_mode = 2 /\ wlc_psta = 0 /\ wlc_express = 2],
       [mode |-> "hs", cond |-> sw_mode = 5] >>

\* the branches in their order, each with its condition on these integers
\* (wlc_psta == "" in the second branch never holds for an integer)
SwModeRules(sw_mode, wlc_psta, wlc_express) ==
    << [mode |-> "re",
        cond |-> /\ \/ (sw_mode = 2 /\ wlc_psta = 0)
                    \/ (sw_mode = 3 /\ wlc_psta = 2)
                 /\ wlc_express = 0],
       [mode |-> "ap", cond |-> sw_mode = 3 /\ wlc_psta = 0],
       [mode |-> "MB",
        cond |-> \/ (sw_mode = 3 /\ wlc_psta \in {1, 3} /\ wlc_express = 0)
                 \/ (sw_mode = 2 /\ wlc_psta = 1 /\ wlc_express = 0)],
       [mode |-> "ew2",
        cond |-> sw_mode = 2 /\ wlc_psta = 0 /\ wlc_express = 1],
       [mode |-> "ew5",
        cond |-> sw_mode = 2 /\ wlc_psta = 0 /\ wlc_express = 2],
       [mode |-> "hs", cond |-> sw_mode = 5] >>

\* the branches whose condition holds
Matching(rules) == { i \in 1..Len(rules) : rules[i].cond }

\* slip: without the default, the last mode of the chain is returned
FirstMatch_no_default(rules) ==
    IF Matching(rules) = {} THEN rules[Len(rules)].mode
    ELSE rules[CHOOSE i \in Matching(rules) :
                 \A j \in Matching(rules) : i <= j].mode

\* mode = SwMode.RT, replaced by the mode of the first branch taken
FirstMatch(rules) ==
    IF Matching(rules) = {} THEN "rt"
    ELSE rules[CHOOSE i \in Matching(rules) :
                 \A j \in Matching(rules) : i <= j].mode

\* int(nvrams["sw_mode"]) raises ValueError
SwModeRaises(nvrams) == IntRaises(nvrams.sw_mode)

get_sw_mode(nvrams) ==
    FirstMatch(SwModeRules(int(nvrams.sw_mode), safe_int(nvrams.wlc_psta),
                           safe_int(nvrams.wlc_express)))

(***************************************************************************)
(* RouterClient.get_dual_wan_info, get_wan_connection_info, get_wan_info   *)
(* and get_network_wan_info, nvrams being what the router answers.         *)
(***************************************************************************)
\* WanMode(nvrams["wans_mode"]) raises ValueError
DualWanRaises(nvrams) == nvrams.wans_mode \notin DOMAIN WanMode

get_dual_wan_info(nvrams, caps) ==
    LET wans_dualwan ==
            [i \in DOMAIN nvrams.wans_dualwan |->
                IF nvrams.wans_dualwan[i] \in DualWanOrigin
                THEN nvrams.wans_dualwan[i] ELSE "none"]
    IN  [wan_origins |-> wans_dualwan,
         active_wan_unit |-> nvrams.wan_unit,
         enabled |-> /\ is_supported(caps, "dualwan")
                     /\ "none" \notin { wans_dualwan[i] :
                                          i \in DOMAIN wans_dualwan },
         wans_mode |-> WanMode[nvrams.wans_mode]]

\* one of the three Enum constructors raises ValueError
WanConnectionRaises(nvrams, wan_index) ==
    \/ EnumRaises(WanState, nvrams.wan[wan_index].state_t)
    \/ EnumRaises(WanSubState, nvrams.wan[wan_index].sbstate_t)
    \/ EnumRaises(WanAuxState, nvrams.wan[wan_index].auxstate_t)
    \/ EnumRaises(LinkInternet, nvrams.link_internet)

get_wan_connection_info(nvrams, wan_index) ==
    [state |-> WanState[int(nvrams.wan[wan_index].state_t)],
     substate |-> WanSubState[int(nvrams.wan[wan_index].sbstate_t)],
     auxstate |-> WanAuxState[int(nvrams.wan[wan_index].auxstate_t)],
     link_internet |-> LinkInternet[int(nvrams.link_internet)]]

\* slip: the internet link is not looked at
is_connected_any_link(conn) ==
    /\ conn.state = "CONNECTED"
    /\ conn.substate = "OK"
    /\ conn.auxstate = "CONNECTED"

\* WanConnectionInfo.is_connected
is_connected(conn) ==
    /\ conn.link_internet = "ONLINE"
    /\ conn.state = "CONNECTED"
    /\ conn.substate = "OK"
    /\ conn.auxstate = "CONNECTED"

\* slip: load balancing puts the other unit on standby too
WanStatusOf_any_mode(dual_wan_info, wan_connection_info, wan_index) ==
    IF /\ dual_wan_info.enabled
       /\ dual_wan_info.active_wan_unit # wan_index
    THEN "standby"
    ELSE IF is_connected(wan_connection_info) THEN "connected"
         ELSE "disconnected"

\* the status get_wan_info gives unit wan_index
WanStatusOf(dual_wan_info, wan_connection_info, wan_index) ==
    IF /\ dual_wan_info.enabled
       /\ dual_wan_info.active_wan_unit # wan_index
       /\ dual_wan_info.wans_mode \in {"FAIL_BACK", "FAIL_OVER"}
    THEN "standby"
    ELSE IF is_connected(wan_connection_info) THEN "connected"
         ELSE "disconnected"

\* one of the two Enum constructors of get_dsl_info raises ValueError
DslRaises(nvrams) ==
    \/ nvrams.dsl0_proto \notin DOMAIN WanDslProtoType
    \/ nvrams.dslx_transmode \notin DOMAIN DslTransMode

get_dsl_info(nvrams) ==
    [proto |-> WanDslProtoType[nvrams.dsl0_proto],
     transmode |-> DslTransMode[nvrams.dslx_transmode]]

\* get_wan_info reads the DSL settings: neither the USB branch nor the raw
\* protocol decides alone
AsksDsl(caps, wan_origin) ==
    /\ ~(is_supported(caps, "usbX") /\ wan_origin = "usb")
    /\ is_supported(caps, "dsl") /\ wan_origin = "dsl"

\* slip: every DSL origin takes the DSL protocol
ProtoOf_any_pairing(nvrams, caps, wan_origin, wan_index) ==
    IF is_supported(caps, "usbX") /\ wan_origin = "usb" THEN "USB"
    ELSE IF AsksDsl(caps, wan_origin)
    THEN WanProtoType[ValueOf(WanDslProtoType, get_dsl_info(nvrams).proto)]
    ELSE WanProtoType[nvrams.wan[wan_index].proto]

\* wan_info.proto of a connected unit
ProtoOf(nvrams, caps, wan_origin, wan_index) ==
    IF is_supported(caps, "usbX") /\ wan_origin = "usb" THEN "USB"
    ELSE IF /\ AsksDsl(caps, wan_origin)
            /\ get_dsl_info(nvrams).transmode = "ATM"
            /\ get_dsl_info(nvrams).proto \in {"IPoA", "PPPoA"}
    THEN WanProtoType[ValueOf(WanDslProtoType, get_dsl_info(nvrams).proto)]
    ELSE WanProtoType[nvrams.wan[wan_index].proto]

\* the protocol part of get_wan_info raises: WanProtoType(raw) or
\* get_dsl_info, both only for a connected unit
WanProtoRaises(nvrams, caps, wan_index) ==
    LET dual_wan_info == get_dual_wan_info(nvrams, caps)
    IN  /\ WanStatusOf(dual_wan_info,
                       get_wan_connection_info(nvrams, wan_index),
                       wan_index) = "connected"
        /\ \/ nvrams.wan[wan_index].proto \notin DOMAIN WanProtoType
           \/ /\ AsksDsl(caps, dual_wan_info.wan_origins[wan_index + 1])
              /\ DslRaises(nvrams)

\* WanInfo.proto is a member's name, "None" when the field was left None
get_wan_info(nvrams, caps, wan_index) ==
    LET dual_wan_info == get_dual_wan_info(nvrams, caps)
        wan_connection_info == get_wan_connection_info(nvrams, wan_index)
        status == WanStatusOf(dual_wan_info, wan_connection_info, wan_index)
    IN  [status |-> status,
         connection_info |-> wan_connection_info,
         active |-> dual_wan_info.active_wan_unit = wan_index,
         proto |-> IF status = "connected"
                   THEN ProtoOf(nvrams, caps,
                                dual_wan_info.wan_origins[wan_index + 1],
                                wan_index)
                   ELSE "None"]

\* the router's answers to the k-th get_wan_unit call of the handler: its
\* active unit changes to the other one just before call failover_at
Fetched(nvrams, k) ==
    IF nvrams.failover_at # 0 /\ k >= nvrams.failover_at
    THEN [nvrams EXCEPT !.wan_unit = 1 - nvrams.wan_unit]
    ELSE nvrams

\* an Optional field that was left None
None == [status |-> "None"]

\* the call that raises, "" when none does; a transport error is raised by
\* the first request
NetworkWanRaisedBy(nvrams, caps) ==
    IF nvrams.st = "raised" THEN "transport"
    ELSE IF SwModeRaises(nvrams) THEN "get_sw_mode"
    ELSE IF EnumRaises(LinkInternet, nvrams.link_internet)
    THEN "get_network_wan_info"
    ELSE IF get_sw_mode(nvrams) # "rt" THEN ""
    ELSE IF DualWanRaises(nvrams) THEN "get_dual_wan_info"
    ELSE IF WanConnectionRaises(nvrams, 0) THEN "get_wan_connection_info"
    ELSE IF WanProtoRaises(Fetched(nvrams, 1), caps, 0) THEN "get_wan_info"
    ELSE IF /\ get_dual_wan_info(nvrams, caps).enabled
            /\ WanConnectionRaises(nvrams, 1)
    THEN "get_wan_connection_info"
    ELSE IF /\ get_dual_wan_info(nvrams, caps).enabled
            /\ WanProtoRaises(Fetched(nvrams, 3), caps, 1)
    THEN "get_wan_info"
    ELSE ""

get_network_wan_info(nvrams, caps) ==
    IF NetworkWanRaisedBy(nvrams, caps) # ""
    THEN [st |-> "raised", raised_by |-> NetworkWanRaisedBy(nvrams, caps)]
    ELSE LET sw_mode == get_sw_mode(nvrams)
             rt == sw_mode = "rt"
             dual_wan_info == get_dual_wan_info(Fetched(nvrams, 2), caps)
         IN  [st |-> "ok",
              mode |-> sw_mode,
              link_internet |-> LinkInternet[int(nvrams.link_internet)],
              dual_wan_info |-> IF rt THEN dual_wan_info ELSE None,
              primary_wan |-> IF rt
                              THEN get_wan_info(Fetched(nvrams, 1), caps, 0)
                              ELSE None,
              secondary_wan |-> IF rt /\ dual_wan_info.enabled
                                THEN get_wan_info(Fetched(nvrams, 3), caps, 1)
                                ELSE None]

(***************************************************************************)
(* Publication.  The children of a gauge are kept per (gauge, base label), *)
(* the base label being the unit of a WAN gauge and the product id of the  *)
(* mode gauge (the WAN handler runs under one product id only): a sequence *)
(* with the value last set for each enum label in iteration order, -1 for  *)
(* a child that was never touched; a plain gauge has one child.  A         *)
(* handler's publication is the sequence of its set() calls in program     *)
(* order.                                                                  *)
(***************************************************************************)
\* the enumerations in iteration order: each member as the client returns
\* it, and the label get_label_value gives it
OneHotFamilies ==
    [router_mode |->
        <<[e |-> "re", label |-> "RE"], [e |-> "ap", label |-> "AP"],
          [e |-> "MB", label |-> "MB"], [e |-> "ew2", label |-> "EW2"],
          [e |-> "ew5", label |-> "EW5"], [e |-> "hs", label |-> "HS"],
          [e |-> "rt", label |-> "RT"]>>,
     dualwan_mode |->
        <<[e |-> "FAIL_OVER", label |-> "fo"],
          [e |-> "FAIL_BACK", label |-> "fb"],
          [e |-> "LOAD_BALANCE", label |-> "lb"]>>,
     wan_auxstate |->
        <<[e |-> "CONNECTED", label |-> "CONNECTED"],
          [e |-> "DISCONNECTED", label |-> "DISCONNECTED"]>>,
     wan_state |->
        <<[e |-> "IDLE", label |-> "IDLE"],
          [e |-> "CONNECTING", label |-> "CONNECTING"],
          [e |-> "CONNECTED", label |-> "CONNECTED"],
          [e |-> "ERROR", label |-> "ERROR"],
          [e |-> "DISABLED", label |-> "DISABLED"]>>,
     wan_substate |->
        <<[e |-> "OK", label |-> "OK"],
          [e |-> "PPP_FAIL", label |-> "PPP_FAIL"],
          [e |-> "BAD_CREDENTIALS", label |-> "BAD_CREDENTIALS"],
          [e |-> "DHCP_FAIL", label |-> "DHCP_FAIL"],
          [e |-> "IP_CONFLICT", label |-> "IP_CONFLICT"]>>,
     wan_status |->
        <<[e |-> "standby", label |-> "standby"],
          [e |-> "connected", label |-> "connected"],
          [e |-> "disconnected", label |-> "disconnected"]>>]

\* bool/int -> 0/1
_b(v) == IF v THEN 1 ELSE 0

\* gauge.labels(**labels).set(value), the enum label being the i-th
SetCall(gauge, base, i, value) ==
    [key |-> <<gauge, base>>, child |-> i, value |-> value]

\* slip: every variant is set to 1
set_onehot_enum_all(gauge, base, current_value) ==
    [i \in 1..Len(OneHotFamilies[gauge]) |-> SetCall(gauge, base, i, 1)]

set_onehot_enum(gauge, base, current_value) ==
    [i \in 1..Len(OneHotFamilies[gauge]) |->
        SetCall(gauge, base, i,
                IF OneHotFamilies[gauge][i].e = current_value THEN 1 ELSE 0)]

zero_onehot_enum(gauge, base) ==
    [i \in 1..Len(OneHotFamilies[gauge]) |-> SetCall(gauge, base, i, 0)]

\* the children of a gauge before any labels() call
NoChildren(gauge) ==
    IF gauge \in DOMAIN OneHotFamilies
    THEN [i \in 1..Len(OneHotFamilies[gauge]) |-> -1]
    ELSE <<-1>>

\* the children after the first n calls: each child holds the value of the
\* last call that set it
Executed(children, calls, n) ==
    [key \in DOMAIN children \cup { calls[j].key : j \in 1..n } |->
        LET of_key == { j \in 1..n : calls[j].key = key }
        IN  [i \in 1..Len(NoChildren(key[1])) |->
                LET setting == { j \in of_key : calls[j].child = i }
                IN  IF setting # {}
                    THEN calls[CHOOSE j \in setting :
                                   \A m \in setting : m <= j].value
                    ELSE IF key \in DOMAIN children THEN children[key][i]
                         ELSE -1]]

\* the set() calls of _collect_wan_metrics
_collect_wan_metrics(unit, wan_info) ==
    IF wan_info = None
    THEN zero_onehot_enum("wan_auxstate", unit)
         \o zero_onehot_enum("wan_state", unit)
         \o zero_onehot_enum("wan_substate", unit)
         \o zero_onehot_enum("wan_status", unit)
         \o <<SetCall("wan_online", unit, 1, 0),
              SetCall("wan_active", unit, 1, 0)>>
    ELSE set_onehot_enum("wan_auxstate", unit,
                         wan_info.connection_info.auxstate)
         \o set_onehot_enum("wan_state", unit, wan_info.connection_info.state)
         \o set_onehot_enum("wan_substate", unit,
                            wan_info.connection_info.substate)
         \o <<SetCall("wan_online", unit, 1,
                      _b(is_connected(wan_info.connection_info)))>>
         \o set_onehot_enum("wan_status", unit, wan_info.status)
         \o <<SetCall("wan_active", unit, 1, _b(wan_info.active))>>

\* the set() calls of _collect_wan_info_metrics after its fetch
_collect_wan_info_metrics(info) ==
    <<SetCall("link_internet", "", 1, _b(info.link_internet = "ONLINE"))>>
    \o (IF info.dual_wan_info # None
        THEN <<SetCall("dualwan_enabled", "", 1,
                       _b(info.dual_wan_info.enabled))>>
             \o set_onehot_enum("dualwan_mode", "",
                                info.dual_wan_info.wans_mode)
        ELSE <<SetCall("dualwan_enabled", "", 1, 0)>>
             \o zero_onehot_enum("dualwan_mode", ""))
    \o _collect_wan_metrics("0", info.primary_wan)
    \o _collect_wan_metrics("1", info.secondary_wan)

(***************************************************************************)
(* RouterClient.get_wireless_info: the bands that are asked for.           *)
(***************************************************************************)
\* slip: the fourth band is asked for under the flag of the third
BandFlags_third_twice == <<"2.4G", "5G", "5G-2", "5G-2">>

\* the capability flag of WifiUnit 0..3, as position 1..4
BandFlags == <<"2.4G", "5G", "5G-2", "wifi6e">>

\* band_fetches: the units get_wireless_band_info was called for
get_wireless_info(caps) ==
    LET band(u) == IF is_supported(caps, BandFlags[u + 1])
                   THEN [status |-> "WifiBandInfo", wl_unit |-> u]
                   ELSE None
    IN  [st |-> "ok",
         band_fetches |-> { u \in 0..3 : is_supported(caps, BandFlags[u + 1]) },
         band_2G_info |-> band(0),
         band_5G_info |-> band(1),
         band_5G_2_info |-> band(2),
         band_6G_info |-> band(3)]

\* the wl_unit labels _collect_wileless_band_metrics publishes for
BandsPublished(info) ==
    { u \in 0..3 :
        <<info.band_2G_info, info.band_5G_info, info.band_5G_2_info,
          info.band_6G_info>>[u + 1] # None }

(***************************************************************************)
(* What the other fetches of a cycle may do.                               *)
(***************************************************************************)
Raised == [st |-> "raised"]

\* get_info of a router in router mode
DefaultInfo ==
    [st |-> "ok", product_id |-> "RT-AX88U", sw_mode |-> "1",
     wlc_psta |-> "0", wlc_express |-> "0"]

\* the same router as an access point
ApInfo == [DefaultInfo EXCEPT !.sw_mode = "3"]

InfoResults ==
    {[st |-> "raised", product_id |-> ""], ApInfo} \cup
    { [DefaultInfo EXCEPT !.product_id = p] : p \in {"", "RT-AX88U"} }

TempResults == {[st |-> "raised", cpu |-> 0]} \cup
               { [st |-> "ok", cpu |-> t] : t \in {45, 60} }

MemResults ==
    {[st |-> "raised", total_kb |-> 0, used_kb |-> 0, free_kb |-> 0]} \cup
    { [st |-> "ok", total_kb |-> 8, used_kb |-> 2, free_kb |-> 6],
      [st |-> "ok", total_kb |-> 0, used_kb |-> 0, free_kb |-> 0] }

\* get_ui_support maps: every feature on; dualwan reported with flag 0;
\* dualwan not reported at all
InitialCaps == ("dualwan" :> 1) @@ ("reboot_schedule" :> 1) @@ ("2.4G" :> 2)

CapMaps ==
    { InitialCaps,
      ("dualwan" :> 0) @@ ("reboot_schedule" :> 1) @@ ("2.4G" :> 2) @@
         ("5G" :> 1) @@ ("5G-2" :> 0),
      ("reboot_schedule" :> 0) @@ ("2.4G" :> 0) @@ ("wifi6e" :> 1),
      InitialCaps @@ ("usbX" :> 1) @@ ("dsl" :> 1) }

\* the decisions of a cycle that read the capabilities, by their handler
Gates == {"reboot_schedule", "dualwan", "wireless"}

Undecided == [st |-> "none", caps |-> << >>]

\* a router in router mode, one WAN configured and healthy
DefaultWan ==
    [st |-> "ok", sw_mode |-> "1", wlc_psta |-> "0", wlc_express |-> "0",
     link_internet |-> "2", wans_dualwan |-> <<"wan", "none">>,
     wans_mode |-> "fo", wan_unit |-> 0, failover_at |-> 0,
     dsl0_proto |-> "pppoe", dslx_transmode |-> "ptm",
     wan |-> [u \in {0, 1} |-> [state_t |-> "2", sbstate_t |-> "0",
                                auxstate_t |-> "0", proto |-> "dhcp"]]]

WanRaised == [st |-> "raised"]

WanResults ==
    { WanRaised, DefaultWan,
      [DefaultWan EXCEPT !.wans_dualwan = <<"wan", "usb">>] }

\* the router with two units, whose active unit changes before one of the
\* three get_wan_unit calls of the handler
FailoverResults ==
    { [DefaultWan EXCEPT !.wans_dualwan = <<"wan", "usb">>,
                         !.failover_at = k] : k \in 1..3 }

\* the router as an access point
ApWan == [DefaultWan EXCEPT !.sw_mode = "3"]

\* the mode fields over their documented values, 1 (router) and unset
SwModeInputs ==
    { [DefaultWan EXCEPT !.sw_mode = s, !.wlc_psta = p, !.wlc_express = e] :
        s \in {"1", "2", "3", "5", ""}, p \in {"0", "1", "2", "3", ""},
        e \in {"0", "1", "2"} }

\* the connection fields of unit 0 over their documented values and beyond
ConnInputs ==
    { [DefaultWan EXCEPT !.link_internet = l,
                         !.wan[0] = [state_t |-> a, sbstate_t |-> b,
                                     auxstate_t |-> c, proto |-> "dhcp"]] :
        l \in {"0", "1", "2", "9"}, a \in {"0", "1", "2", "3", "4", "5"},
        b \in {"0", "1", "2", "3", "4", ""}, c \in {"0", "1", "2"} }

\* the dual-WAN fields, each unit up or down
DualInputs ==
    { [DefaultWan EXCEPT !.wans_dualwan = o, !.wans_mode = m, !.wan_unit = a,
                         !.wan[0].state_t = s0, !.wan[1].state_t = s1] :
        o \in {<<"wan", "none">>, <<"wan", "usb">>},
        m \in {"fo", "fb", "lb", ""}, a \in {0, 1},
        s0 \in {"2", "0"}, s1 \in {"2", "0", "3"} }

\* the origin of unit 0, its raw protocol and the DSL settings, the unit up
\* or down
ProtoInputs ==
    { [DefaultWan EXCEPT !.wans_dualwan = <<o, "none">>, !.wan[0].proto = p,
                         !.dsl0_proto = d, !.dslx_transmode = t,
                         !.wan[0].state_t = s0] :
        o \in {"wan", "usb", "dsl"}, p \in {"dhcp", "pppoe", ""},
        d \in {"pppoa", "ipoa", "pppoe", ""}, t \in {"atm", "ptm"},
        s0 \in {"2", "0"} }

WanInputs == SwModeInputs \cup ConnInputs \cup DualInputs \cup FailoverResults

WifiResults == {Raised, [st |-> "ok"]}

\* the domains in the order collect_all_metrics runs their handlers
Domains == <<"info", "temp", "cpu", "mem", "net", "wan", "wifi">>

DomainSet == { Domains[i] : i \in 1..Len(Domains) }

Position(d) == CHOOSE i \in 1..Len(Domains) : Domains[i] = d

(***************************************************************************)
(* The reboot schedule.  The nvram value reboot_schedule is a string of    *)
(* eleven digits, kept as the sequence of its digits: seven weekday bits,  *)
(* hh, mm.  A datetime is a day number (day 0 is a Monday) and the seconds *)
(* of that day; the router's clock has a fixed offset and no microseconds. *)
(***************************************************************************)
\* int(digits, 2)
RECURSIVE int_base2(_)
int_base2(digits) ==
    IF digits = << >> THEN 0
    ELSE 2 * int_base2(SubSeq(digits, 1, Len(digits) - 1))
         + digits[Len(digits)]

\* int(digits)
RECURSIVE int_base10(_)
int_base10(digits) ==
    IF digits = << >> THEN 0
    ELSE 10 * int_base10(SubSeq(digits, 1, Len(digits) - 1))
         + digits[Len(digits)]

\* bool(int(s))
to_bool(s) == int(s) # 0

_parse_schedule(schedule) ==
    [weekday_mask |-> int_base2(SubSeq(schedule, 1, 7)),
     hh |-> int_base10(SubSeq(schedule, 8, 9)),
     mm |-> int_base10(SubSeq(schedule, 10, 11))]

\* datetime.weekday(): Monday is 0
weekday(dt) == dt.day % 7

\* slip: the mask is read with Monday as its first day
is_weekday_enabled_monday_first(conf, wd) ==
    (conf.weekday_mask \div (2 ^ (6 - wd))) % 2 = 1

\* RebootScheduleConf.is_weekday_enabled
is_weekday_enabled(conf, wd) ==
    LET weekday_index_asus == (wd + 1) % 7
    IN  (conf.weekday_mask \div (2 ^ (6 - weekday_index_asus))) % 2 = 1

\* RebootScheduleConf.set_time
set_time(conf, dt) == [day |-> dt.day, secs |-> conf.hh * 3600 + conf.mm * 60]

\* a - b of two datetimes, .total_seconds()
total_seconds(a, b) == (a.day - b.day) * 86400 + (a.secs - b.secs)

\* slip: the scan stops after one week
DayOffsets_week == 0..6

\* range(8)
DayOffsets == 0..7

\* the for loop of get_reboot_schedule_time from offset delta on
RECURSIVE ScanDays(_, _, _)
ScanDays(conf, now, delta) ==
    IF delta \notin DayOffsets THEN None
    ELSE LET day_dt == [day |-> now.day + delta, secs |-> now.secs]
             candidate == set_time(conf, day_dt)
         IN  IF /\ is_weekday_enabled(conf, weekday(day_dt))
                /\ (delta > 0 \/ total_seconds(candidate, now) >= 0)
             THEN [next_at |-> candidate,
                   until_ms |-> Max(0, total_seconds(candidate, now) * 1000),
                   schedule |-> conf]
             ELSE ScanDays(conf, now, delta + 1)

get_reboot_schedule_time(caps, nvrams, now) ==
    IF ~is_supported(caps, "reboot_schedule") THEN None
    ELSE IF ~to_bool(nvrams.reboot_schedule_enable) THEN None
    ELSE ScanDays(_parse_schedule(nvrams.reboot_schedule), now, 0)

\* the seven weekday bits of reboot_schedule, Sunday first
WeekdayBits == [1..7 -> {0, 1}]

\* 03:30 and 23:59
ScheduleTimes == {<<0, 3, 3, 0>>, <<2, 3, 5, 9>>}

RebootNvrams ==
    { [reboot_schedule_enable |-> e, reboot_schedule |-> b \o t] :
        e \in {"0", "1"}, b \in WeekdayBits, t \in ScheduleTimes }

\* any day of one week at 03:00:00, 03:30:00 and 03:30:01
Systimes == { [day |-> d, secs |-> x] : d \in 0..6,
                                        x \in {10800, 12600, 12601} }

\* enabled, Wednesday only, 03:30
DefaultRebootNvram ==
    [reboot_schedule_enable |-> "1",
     reboot_schedule |-> <<0, 0, 0, 1, 0, 0, 0, 0, 3, 3, 0>>]

\* a Tuesday, 03:00:00
DefaultSystime == [day |-> 1, secs |-> 10800]

(***************************************************************************)
(* The state after RouterMetricsCollector.__init__, before the first cycle *)
(***************************************************************************)
Constructed ==
    /\ pc = "start"
    /\ cycle = 0
    /\ router_info = [st |-> "none", product_id |-> ""]
    /\ outcome = [d \in DomainSet |-> "pending"]
    /\ scrape_errors_total = 0
    /\ cpu_temp = Absent
    /\ memory_gauges = [total |-> Absent, used |-> Absent, free |-> Absent,
                        used_pct |-> Absent]
    /\ cpu_infos = [st |-> "none", cpus |-> << >>]
    /\ previous_cpu_samples = << >>
    /\ cpu_usage_counter = [c \in CpuIds |-> 0]
    /\ cpu_total_counter = [c \in CpuIds |-> 0]
    /\ cpu_usage_percent_gauge = [c \in CpuIds |-> Absent]
    /\ netdev_info = [st |-> "none"]
    /\ previous_network_samples = << >>
    /\ tx_bytes = [s \in Series |-> 0]
    /\ rx_bytes = [s \in Series |-> 0]
    /\ ui_support = InitialCaps
    /\ caps_used = [g \in Gates |-> Undecided]
    /\ wan_nvram = [st |-> "none"]
    /\ net_wan_info = [st |-> "none"]
    /\ reboot_schedule = None
    /\ next_reboot_seconds = Absent
    /\ router_mode = << >>
    /\ wans = << >>
    /\ pending = << >>
    /\ scraped = << >>
    /\ wireless_info = [st |-> "none"]
    /\ wl_band_info = {}

\* the exporter starts against a router with its default settings
Init ==
    /\ Constructed
    /\ reboot_nvram = DefaultRebootNvram
    /\ systime = DefaultSystime

\* the exporter starts against a router with any reboot schedule, at any
\* time of the week
InitReboot ==
    /\ Constructed
    /\ reboot_nvram \in RebootNvrams
    /\ systime \in Systimes

\* the handler of domain d ran to its end: the fetch answered, or it raised
\* and the handler caught it
Handled(d, res, next) ==
    /\ outcome' = [outcome EXCEPT ![d] = IF res.st = "ok" THEN "collected"
                                                           ELSE "failed"]
    /\ pc' = next
    /\ UNCHANGED scrape_errors_total

\* the handler of domain d let the exception out: collect_all_metrics counts
\* it and raises it again, and so does the loop of app, which ends the thread
Escaped(d) ==
    /\ outcome' = [outcome EXCEPT ![d] = "failed"]
    /\ scrape_errors_total' = scrape_errors_total + 1
    /\ pc' = "terminated"

(***************************************************************************)
(* app's loop calls collect_all_metrics, which starts with                 *)
(* _collect_router_info and returns at once on an empty product id.        *)
(***************************************************************************)
CollectRouterInfo(results, max_cycles) ==
    /\ pc = "start"
    /\ cycle < max_cycles
    /\ cycle' = cycle + 1
    /\ \E res \in results :
         IF res.st = "raised"
         THEN /\ outcome' = [d \in DomainSet |->
                               IF d = "info" THEN "failed" ELSE "pending"]
              /\ scrape_errors_total' = scrape_errors_total + 1
              /\ pc' = "terminated"
              /\ caps_used' = [g \in Gates |-> Undecided]
              /\ UNCHANGED <<router_info, reboot_schedule,
                             next_reboot_seconds, router_mode>>
         ELSE /\ outcome' = [d \in DomainSet |->
                               IF d = "info" THEN "collected" ELSE "pending"]
              /\ router_info' = res
              /\ LET calls == set_onehot_enum("router_mode", res.product_id,
                                              get_sw_mode(res))
                 IN  router_mode' = Executed(router_mode, calls, Len(calls))
              /\ pc' = IF res.product_id = "" THEN "sleep" ELSE "temp"
              \* get_info asks get_reboot_schedule_time, which reads the
              \* capabilities
              /\ caps_used' =
                   [g \in Gates |->
                      IF g = "reboot_schedule"
                      THEN [st |-> "ok", caps |-> get_supported_features]
                      ELSE Undecided]
              /\ LET info == get_reboot_schedule_time(
                                get_supported_features, reboot_nvram, systime)
                 IN  /\ reboot_schedule' = info
                     /\ next_reboot_seconds' =
                          IF info # None THEN Num(info.until_ms, 1000)
                                         ELSE NaN
              /\ UNCHANGED scrape_errors_total
    /\ UNCHANGED <<gaugeVars, cpuVars, netVars, ui_support, wanVars,
                   reboot_nvram, systime, wans, pending, scraped, wifiVars>>

CollectTemperature(results) ==
    /\ pc = "temp"
    /\ \E res \in results :
         /\ cpu_temp' = IF res.st = "ok" THEN _set_gauge_safe(Num(res.cpu, 1))
                                         ELSE _set_gauge_safe(NaN)
         /\ Handled("temp", res, "cpu")
    /\ UNCHANGED <<cycle, router_info, memory_gauges, cpuVars, netVars,
                   ui_support, caps_used, wanVars,
                   rebootVars, publishVars, wifiVars>>

CollectCpu(results) ==
    /\ pc = "cpu"
    /\ \E res \in results :
         /\ _collect_cpu_metrics(res)
         /\ Handled("cpu", res, "mem")
    /\ UNCHANGED <<cycle, router_info, gaugeVars, netVars, ui_support,
                   caps_used, wanVars,
                   rebootVars, publishVars, wifiVars>>

CollectMemory(results) ==
    /\ pc = "mem"
    /\ \E res \in results :
         /\ memory_gauges' =
              IF res.st = "ok"
              THEN LET total_b == _kb_to_bytes(res.total_kb)
                       used_b == _kb_to_bytes(res.used_kb)
                       free_b == _kb_to_bytes(res.free_kb)
                   IN  [total |-> _set_gauge_safe(total_b),
                        used |-> _set_gauge_safe(used_b),
                        free |-> _set_gauge_safe(free_b),
                        used_pct |->
                           IF total_b.num > 0
                           THEN _set_gauge_safe(
                                  Num(Max(0, Min(100 * total_b.num,
                                                 used_b.num * 100)),
                                      total_b.num))
                           ELSE _set_gauge_safe(NaN)]
              ELSE [total |-> _set_gauge_safe(NaN),
                    used |-> _set_gauge_safe(NaN),
                    free |-> _set_gauge_safe(NaN),
                    used_pct |-> _set_gauge_safe(NaN)]
         /\ Handled("mem", res, "net")
    /\ UNCHANGED <<cycle, router_info, cpu_temp, cpuVars, netVars,
                   ui_support, caps_used, wanVars,
                   rebootVars, publishVars, wifiVars>>

CollectNetwork(results) ==
    /\ pc = "net"
    /\ \E res \in results :
         /\ _collect_network_metrics(res)
         /\ Handled("net", res, "wan")
    /\ UNCHANGED <<cycle, router_info, gaugeVars, cpuVars, ui_support,
                   caps_used, wanVars,
                   rebootVars, publishVars, wifiVars>>

\* _collect_wan_info_metrics: client.get_network_wan_info() is not guarded;
\* in router mode it decides dual-WAN by the capabilities
FetchWanInfo(nvrams, res) ==
    /\ wan_nvram' = nvrams
    /\ net_wan_info' = res
    /\ caps_used' =
         IF res.st = "ok" /\ res.mode = "rt"
         THEN [caps_used EXCEPT !["dualwan"] =
                 [st |-> "ok", caps |-> get_supported_features]]
         ELSE caps_used

CollectWanInfo(results) ==
    /\ pc = "wan"
    /\ \E nvrams \in results :
         LET res == get_network_wan_info(nvrams, get_supported_features)
         IN  /\ FetchWanInfo(nvrams, res)
             /\ IF res.st = "raised"
                THEN Escaped("wan") /\ UNCHANGED wans
                ELSE /\ Handled("wan", res, "wifi")
                     /\ LET calls == _collect_wan_info_metrics(res)
                        IN  wans' = Executed(wans, calls, Len(calls))
    /\ UNCHANGED <<cycle, router_info, gaugeVars, cpuVars, netVars,
                   ui_support, rebootVars, router_mode, pending, scraped,
                   wifiVars>>

\* the same handler up to the return of its fetch, its set() calls still to
\* be made
BeginWanInfo(results) ==
    /\ pc = "wan"
    /\ \E nvrams \in results :
         LET res == get_network_wan_info(nvrams, get_supported_features)
         IN  /\ FetchWanInfo(nvrams, res)
             /\ IF res.st = "raised"
                THEN Escaped("wan") /\ UNCHANGED pending
                ELSE /\ pending' = _collect_wan_info_metrics(res)
                     /\ pc' = "wan_set"
                     /\ UNCHANGED <<outcome, scrape_errors_total>>
    /\ UNCHANGED <<cycle, router_info, gaugeVars, cpuVars, netVars,
                   ui_support, rebootVars, router_mode, wans, scraped,
                   wifiVars>>

\* the handler makes its next set() call, and returns after the last one
SetNext ==
    /\ pc = "wan_set"
    /\ wans' = Executed(wans, pending, 1)
    /\ pending' = Tail(pending)
    /\ IF Len(pending) = 1
       THEN Handled("wan", net_wan_info, "wifi")
       ELSE UNCHANGED <<pc, outcome, scrape_errors_total>>
    /\ UNCHANGED <<cycle, router_info, gaugeVars, cpuVars, netVars,
                   ui_support, caps_used, wanVars, rebootVars, router_mode,
                   scraped, wifiVars>>

\* the HTTP server thread of start_http_server answers a scrape: it reads
\* the children as they are at that moment
Scrape ==
    /\ scraped' = wans
    /\ UNCHANGED <<pc, cycle, router_info, outcome, scrape_errors_total,
                   gaugeVars, cpuVars, netVars, ui_support, caps_used,
                   wanVars, rebootVars, router_mode, wans, pending, wifiVars>>

\* _collect_wireless_metrics: client.get_wireless_info() is not guarded; it
\* picks the bands by the capabilities
CollectWireless(results) ==
    /\ pc = "wifi"
    /\ \E res \in results :
         IF res.st = "raised"
         THEN Escaped("wifi") /\ UNCHANGED <<caps_used, wifiVars>>
         ELSE /\ Handled("wifi", res, "sleep")
              /\ caps_used' = [caps_used EXCEPT !["wireless"] =
                                 [st |-> "ok", caps |-> get_supported_features]]
              /\ wireless_info' = get_wireless_info(get_supported_features)
              /\ wl_band_info' =
                   wl_band_info \cup BandsPublished(wireless_info')
    /\ UNCHANGED <<cycle, router_info, gaugeVars, cpuVars, netVars,
                   ui_support, wanVars, rebootVars, publishVars>>

\* the router's capability map changes (a firmware update, a setting)
FirmwareUpdate(maps) ==
    /\ ui_support' \in maps \ {ui_support}
    /\ UNCHANGED <<pc, cycle, router_info, outcome, scrape_errors_total,
                   gaugeVars, cpuVars, netVars, caps_used, wanVars,
                   rebootVars, publishVars, wifiVars>>

\* time.sleep(2) returns and the loop starts over
Sleep ==
    /\ pc = "sleep"
    /\ pc' = "start"
    /\ UNCHANGED <<cycle, router_info, outcome, scrape_errors_total,
                   gaugeVars, cpuVars, netVars, ui_support, caps_used,
                   wanVars,
                   rebootVars, publishVars, wifiVars>>

(***************************************************************************)
(* The exporter against a router whose every fetch may raise.  The CPU and *)
(* network fetches answer from a few snapshots only.                       *)
(***************************************************************************)
CycleCpuResults ==
    { CpuRaised,
      [st |-> "ok", cpus |-> <<[usage |-> 100, total |-> 200]>>],
      [st |-> "ok", cpus |-> <<[usage |-> 150, total |-> 250]>>] }

CycleNetResults ==
    { NetRaised } \cup
    { r \in NetResults :
        /\ r.st = "ok"
        /\ r.wired = r.bridge
        /\ r.internet = (0 :> r.bridge)
        /\ r.wireless = << >> }

Next ==
    \/ CollectRouterInfo(InfoResults, MaxCycles)
    \/ CollectTemperature(TempResults)
    \/ CollectCpu(CycleCpuResults)
    \/ CollectMemory(MemResults)
    \/ CollectNetwork(CycleNetResults)
    \/ CollectWanInfo(WanResults \cup FailoverResults \cup {ApWan})
    \/ CollectWireless(WifiResults)
    \/ Sleep

Spec == Init /\ [][Next]_vars

(***************************************************************************)
(* The reconciliation engine against a router whose other fetches always   *)
(* answer the same, and whose CPU and network fetches answer from the full *)
(* input sets, the network fetch only in a cycle whose CPU fetch raised    *)
(* and with the wired interface reporting the counters of the bridge.      *)
(***************************************************************************)
EngineNetResults ==
    { r \in NetResults : r.st = "ok" => r.wired = r.bridge }

EngineNetwork ==
    CollectNetwork(IF outcome["cpu"] = "collected" THEN {NetRaised}
                                                   ELSE EngineNetResults)

NextEngine ==
    \/ CollectRouterInfo({DefaultInfo},
                         MaxEngineCycles)
    \/ CollectTemperature({[st |-> "ok", cpu |-> 45]})
    \/ CollectCpu(CpuResults)
    \/ CollectMemory({[st |-> "ok", total_kb |-> 8, used_kb |-> 2,
                       free_kb |-> 6]})
    \/ EngineNetwork
    \/ CollectWanInfo({DefaultWan})
    \/ CollectWireless({[st |-> "ok"]})
    \/ Sleep

SpecEngine == Init /\ [][NextEngine]_vars

(***************************************************************************)
(* The capability gate against a router whose fetches all answer and whose *)
(* capability map may change at any moment.                                *)
(***************************************************************************)
NextGate ==
    \/ CollectRouterInfo({DefaultInfo},
                         MaxGateCycles)
    \/ CollectTemperature({[st |-> "ok", cpu |-> 45]})
    \/ CollectCpu({[st |-> "ok", cpus |-> <<[usage |-> 100, total |-> 200]>>]})
    \/ CollectMemory({[st |-> "ok", total_kb |-> 8, used_kb |-> 2,
                       free_kb |-> 6]})
    \/ CollectNetwork({NetRaised})
    \/ CollectWanInfo(WanResults \ {WanRaised})
    \/ CollectWireless({[st |-> "ok"]})
    \/ Sleep
    \/ FirmwareUpdate(CapMaps)

SpecGate == Init /\ [][NextGate]_vars

(***************************************************************************)
(* The WAN classification against a router that answers every fetch, whose *)
(* capability map was set before the first cycle, and whose WAN fields     *)
(* range over the full input set.                                          *)
(***************************************************************************)
NextWan ==
    \/ CollectRouterInfo({DefaultInfo},
                         MaxWanCycles)
    \/ CollectTemperature({[st |-> "ok", cpu |-> 45]})
    \/ CollectCpu({[st |-> "ok", cpus |-> <<[usage |-> 100, total |-> 200]>>]})
    \/ CollectMemory({[st |-> "ok", total_kb |-> 8, used_kb |-> 2,
                       free_kb |-> 6]})
    \/ CollectNetwork({NetRaised})
    \/ CollectWanInfo(WanInputs)
    \/ CollectWireless({[st |-> "ok"]})
    \/ Sleep
    \/ (cycle = 0 /\ FirmwareUpdate(CapMaps))

SpecWan == Init /\ [][NextWan]_vars

(***************************************************************************)
(* The WAN protocol against a router that answers every fetch, whose       *)
(* capability map was set before the first cycle, and whose origin,        *)
(* protocol and DSL fields range over ProtoInputs.                         *)
(***************************************************************************)
NextProto ==
    \/ CollectRouterInfo({DefaultInfo}, MaxProtoCycles)
    \/ CollectTemperature({[st |-> "ok", cpu |-> 45]})
    \/ CollectCpu({[st |-> "ok", cpus |-> <<[usage |-> 100, total |-> 200]>>]})
    \/ CollectMemory({[st |-> "ok", total_kb |-> 8, used_kb |-> 2,
                       free_kb |-> 6]})
    \/ CollectNetwork({NetRaised})
    \/ CollectWanInfo(ProtoInputs)
    \/ CollectWireless({[st |-> "ok"]})
    \/ Sleep
    \/ (cycle = 0 /\ FirmwareUpdate(CapMaps))

SpecProto == Init /\ [][NextProto]_vars

(***************************************************************************)
(* The reboot schedule against a router that answers every fetch, with any *)
(* schedule setting and any clock reading of InitReboot.                   *)
(***************************************************************************)
NextReboot ==
    \/ CollectRouterInfo({DefaultInfo},
                         MaxRebootCycles)
    \/ CollectTemperature({[st |-> "ok", cpu |-> 45]})
    \/ CollectCpu({[st |-> "ok", cpus |-> <<[usage |-> 100, total |-> 200]>>]})
    \/ CollectMemory({[st |-> "ok", total_kb |-> 8, used_kb |-> 2,
                       free_kb |-> 6]})
    \/ CollectNetwork({NetRaised})
    \/ CollectWanInfo({DefaultWan})
    \/ CollectWireless({[st |-> "ok"]})
    \/ Sleep

SpecReboot == InitReboot /\ [][NextReboot]_vars

(***************************************************************************)
(* The exposition thread against the loop thread: the WAN handler makes    *)
(* its set() calls one at a time and a scrape may come between any two.    *)
(* Unit 0 is up or down and a second unit is configured or not.            *)
(***************************************************************************)
ScrapeWanResults ==
    { DefaultWan,
      [DefaultWan EXCEPT !.wan[0].state_t = "0"],
      [DefaultWan EXCEPT !.wans_dualwan = <<"wan", "usb">>] }

NextScrape ==
    \/ CollectRouterInfo({DefaultInfo}, MaxScrapeCycles)
    \/ CollectTemperature({[st |-> "ok", cpu |-> 45]})
    \/ CollectCpu({[st |-> "ok", cpus |-> <<[usage |-> 100, total |-> 200]>>]})
    \/ CollectMemory({[st |-> "ok", total_kb |-> 8, used_kb |-> 2,
                       free_kb |-> 6]})
    \/ CollectNetwork({NetRaised})
    \/ BeginWanInfo(ScrapeWanResults)
    \/ SetNext
    \/ CollectWireless({[st |-> "ok"]})
    \/ Sleep
    \/ (scraped # wans /\ Scrape)

SpecScrape == Init /\ [][NextScrape]_vars

(***************************************************************************)
(* Counter series, keyed as (domain, instance, metric).                    *)
(***************************************************************************)
CounterSeries ==
    [dom : {"cpu"}, id : CpuIds, metric : {"usage", "total"}] \cup
    [dom : {"bridge", "wired"}, id : {0}, metric : {"tx", "rx"}] \cup
    [dom : {"internet", "wireless"}, id : IfaceIds, metric : {"tx", "rx"}]

\* the published accumulated counter of series k
Published(k) ==
    IF k.dom = "cpu"
    THEN IF k.metric = "usage" THEN cpu_usage_counter[k.id]
                               ELSE cpu_total_counter[k.id]
    ELSE IF k.metric = "tx" THEN tx_bytes[<<k.dom, k.id>>]
                            ELSE rx_bytes[<<k.dom, k.id>>]

\* a previous sample of series k is stored
HasStored(k) ==
    IF k.dom = "cpu" THEN k.id \in DOMAIN previous_cpu_samples
    ELSE /\ DOMAIN previous_network_samples # {}
         /\ \/ k.dom \in {"bridge", "wired"}
            \/ k.id \in DOMAIN previous_network_samples[k.dom]

StoredRaw(k) ==
    IF k.dom = "cpu" THEN previous_cpu_samples[k.id][k.metric]
    ELSE IF k.dom \in {"bridge", "wired"}
    THEN previous_network_samples[k.dom][k.metric]
    ELSE previous_network_samples[k.dom][k.id][k.metric]

\* the last fetch of k's domain answered, and its snapshot holds series k
Seen(k) ==
    IF k.dom = "cpu" THEN cpu_infos.st = "ok" /\ k.id < Len(cpu_infos.cpus)
    ELSE /\ netdev_info.st = "ok"
         /\ \/ k.dom \in {"bridge", "wired"}
            \/ k.id \in DOMAIN netdev_info[k.dom]

ThroughputField(metric) ==
    IF metric = "tx" THEN "total_upload_bytes" ELSE "total_download_bytes"

\* the raw value of series k in that snapshot
Raw(k) ==
    IF k.dom = "cpu" THEN cpu_infos.cpus[k.id + 1][k.metric]
    ELSE IF k.dom \in {"bridge", "wired"}
    THEN netdev_info[k.dom][ThroughputField(k.metric)]
    ELSE netdev_info[k.dom][k.id][ThroughputField(k.metric)]

\* this step is the handler of k's domain observing series k
Observes(k) ==
    /\ IF k.dom = "cpu" THEN pc = "cpu" /\ pc' = "mem"
                        ELSE pc = "net" /\ pc' = "wan"
    /\ Seen(k)'

\* what this step adds to the published counter of series k
Increment(k) == Published(k)' - Published(k)

RECURSIVE ShiftRight(_, _)
ShiftRight(x, w) == IF w = 0 \/ x = 0 THEN x ELSE ShiftRight(x \div 2, w - 1)

\* x < 2^w
FitsWidth(x, w) == x >= 0 /\ ShiftRight(x, w) = 0

RECURSIVE IsTwoToThe(_, _)
\* x = 2^w
IsTwoToThe(x, w) ==
    IF w = 0 THEN x = 1
    ELSE x > 0 /\ x % 2 = 0 /\ IsTwoToThe(x \div 2, w - 1)

WrapWidths == <<64, 48, 32>>

\* the first candidate width the previous value fits in, 0 when there is none
FirstWidth(previous) ==
    IF \E i \in 1..Len(WrapWidths) : FitsWidth(previous, WrapWidths[i])
    THEN WrapWidths[CHOOSE i \in 1..Len(WrapWidths) :
            /\ FitsWidth(previous, WrapWidths[i])
            /\ \A j \in 1..(i - 1) : ~FitsWidth(previous, WrapWidths[j])]
    ELSE 0

\* C1: when a series with a stored previous value is observed with
\* current >= previous, its published counter grows by exactly
\* current - previous (CPU usage and total ticks, tx/rx bytes of bridge,
\* wired, internet and wireless interfaces).
C1_DeltaIsDifference ==
    [][\A k \in CounterSeries :
         (Observes(k) /\ HasStored(k) /\ Raw(k)' >= StoredRaw(k))
            => Increment(k) = Raw(k)' - StoredRaw(k)]_vars

\* CPU 0 went from usage 100 to usage 150, and 50 ticks were published
C1_Witness ==
    /\ 0 \in DOMAIN previous_cpu_samples
    /\ previous_cpu_samples[0].usage = 150
    /\ cpu_usage_counter[0] = 50

\* C2: when a series is observed with current < previous, its published
\* counter grows by current + (2^w - previous), w being the first of the
\* widths 64, 48, 32 with previous < 2^w.
C2_WrapAround ==
    [][\A k \in CounterSeries :
         (Observes(k) /\ HasStored(k) /\ Raw(k)' < StoredRaw(k))
            => /\ FirstWidth(StoredRaw(k)) # 0
               /\ IsTwoToThe(Increment(k) + StoredRaw(k) - Raw(k)',
                             FirstWidth(StoredRaw(k)))]_vars

\* C3: a regression is never dropped: when a series is observed with
\* current < previous its published counter grows by at least current, so
\* by a positive amount when current > 0.
C3_RegressionNotDropped ==
    [][\A k \in CounterSeries :
         (Observes(k) /\ HasStored(k) /\ Raw(k)' < StoredRaw(k))
            => /\ Increment(k) >= Raw(k)'
               /\ (Raw(k)' > 0 => Increment(k) > 0)]_vars

\* C4: no step of any cycle, whether its fetch answered or raised and
\* whether the raw values rose or fell, lowers a published counter.
C4_CountersMonotonic ==
    [][\A k \in CounterSeries : Published(k)' >= Published(k)]_vars

\* CPU 0 published 50 usage ticks and was then seen at usage 90, a regression
C4_Witness ==
    /\ 0 \in DOMAIN previous_cpu_samples
    /\ previous_cpu_samples[0].usage = 90
    /\ cpu_usage_counter[0] = 50

\* C5: when a series without a stored previous value is observed (first
\* cycle, or a CPU / interface id new in a later cycle), nothing is added to
\* its published counter and the raw value becomes its stored baseline.
C5_FirstObservation ==
    [][\A k \in CounterSeries :
         (Observes(k) /\ ~HasStored(k))
            => /\ Increment(k) = 0
               /\ HasStored(k)'
               /\ StoredRaw(k)' = Raw(k)']_vars

\* in its second cycle the CPU handler measured CPU 0 (50 ticks) and holds a
\* baseline for CPU 1, whose counters are still at 0
C5_Witness ==
    /\ cycle = 2
    /\ pc = "mem"
    /\ cpu_usage_counter[0] = 50
    /\ 1 \in DOMAIN previous_cpu_samples
    /\ previous_cpu_samples[1].usage = 150
    /\ cpu_usage_counter[1] = 0
    /\ cpu_total_counter[1] = 0
    /\ cpu_usage_percent_gauge[1] = NaN

CpuUsage(c) == [dom |-> "cpu", id |-> c, metric |-> "usage"]

CpuTotal(c) == [dom |-> "cpu", id |-> c, metric |-> "total"]

\* this step measures CPU c: the CPU handler observes it against a baseline
Measures(c) == Observes(CpuUsage(c)) /\ HasStored(CpuUsage(c))

\* C6: when the CPU handler measures a CPU, with delta_busy and delta_total
\* the increments it publishes, the percent gauge is NaN (not 0) if
\* delta_total <= 0 and otherwise the number clamp(delta_busy / delta_total
\* * 100, 0, 100), which lies in [0, 100]; and of two CPUs measured in one
\* step with the same delta_total, the one with the smaller delta_busy has
\* the smaller or equal percent.
C6_PercentGauge ==
    [][\A c \in CpuIds :
         Measures(c) =>
           LET du == Increment(CpuUsage(c))
               dt == Increment(CpuTotal(c))
               g == cpu_usage_percent_gauge'[c]
           IN  /\ dt <= 0 => g = NaN
               /\ dt > 0 =>
                    /\ g.kind = "num" /\ g.den > 0
                    /\ 0 <= g.num /\ g.num <= 100 * g.den
                    /\ g.num * dt = Min(Max(du * 100, 0), 100 * dt) * g.den
                    /\ \A d \in CpuIds :
                         (/\ Measures(d)
                          /\ Increment(CpuTotal(d)) = dt
                          /\ Increment(CpuUsage(d)) <= du)
                            => LET h == cpu_usage_percent_gauge'[d]
                               IN  h.num * g.den <= g.num * h.den]_vars

\* one step measured CPU 0 at 10 busy of 20 total ticks (50 percent) and CPU 1
\* at 70 busy of 10 total ticks (clamped to 100 percent)
C6_Witness ==
    /\ cpu_usage_percent_gauge[0] = Num(1000, 20)
    /\ cpu_usage_percent_gauge[1] = Num(100, 1)
    /\ cpu_usage_counter[0] = 10 /\ cpu_total_counter[0] = 20
    /\ cpu_usage_counter[1] = 70 /\ cpu_total_counter[1] = 10

\* C7: a CPU sampled at (usage 100, total 200) and next at (150, 250) gets
\* 50 usage ticks, 50 total ticks and percent 100; a CPU sampled at
\* (150, 250) and next at (90, 260) gets 90 + 2^32 - 150 usage ticks, not 0,
\* and 10 total ticks.
C7_CycleExample ==
    [][Measures(0) =>
         LET prev == previous_cpu_samples[0]
             now == cpu_infos'.cpus[1]
             du == Increment(CpuUsage(0))
             dt == Increment(CpuTotal(0))
         IN  /\ (prev = [usage |-> 100, total |-> 200] /\
                 now = [usage |-> 150, total |-> 250])
                   => /\ du = 50 /\ dt = 50
                      /\ cpu_usage_percent_gauge'[0] = Num(100, 1)
             /\ (prev = [usage |-> 150, total |-> 250] /\
                 now = [usage |-> 90, total |-> 260])
                   => /\ IsTwoToThe(du + 150 - 90, 32)
                      /\ du # 0
                      /\ dt = 10]_vars

\* the cycle is over: collect_all_metrics returned or the thread ended
CycleOver == pc \in {"sleep", "start", "terminated"} /\ cycle > 0

\* C8: when the cycle is over, every domain ordered after a domain that
\* failed in it has been collected in it: no failure aborted the rest.
C8_FailureIsolated ==
    CycleOver =>
      \A d \in DomainSet, e \in DomainSet :
        (outcome[d] = "failed" /\ Position(e) > Position(d))
           => outcome[e] # "pending"

\* C9: no failure is fatal: a domain failing in a cycle never leaves the
\* polling loop ended.
C9_NoFailureIsFatal ==
    (\E d \in DomainSet : outcome[d] = "failed") => pc # "terminated"

\* C10: every step in which a domain fails raises the scrape error counter.
C10_FailureCounted ==
    [][\A d \in DomainSet :
         (outcome[d] # "failed" /\ outcome'[d] = "failed")
            => scrape_errors_total' > scrape_errors_total]_vars

\* the domain whose handler reconciles series k
DomainOf(k) == IF k.dom = "cpu" THEN "cpu" ELSE "net"

\* this step leaves the stored sample and the published counter of k alone
Untouched(k) ==
    /\ Published(k)' = Published(k)
    /\ HasStored(k)' = HasStored(k)
    /\ HasStored(k) => StoredRaw(k)' = StoredRaw(k)

\* this step reconciles series k by the rule of a cycle without failure
Reconciled(k) ==
    IF Seen(k)'
    THEN /\ HasStored(k)' /\ StoredRaw(k)' = Raw(k)'
         /\ Increment(k) = IF HasStored(k)
                            THEN _calculate_delta(Raw(k)', StoredRaw(k))
                            ELSE 0
    ELSE Increment(k) = 0

\* C11: a step in which the fetch of a series' domain raises, and every
\* step of another handler, leaves the stored sample and the published
\* counter of the series unchanged; and a step in which the fetch of its
\* domain answers reconciles it by the same rule whether or not the other
\* domain failed in this cycle.
C11_FailureLeavesCounters ==
    [][\A k \in CounterSeries :
         /\ (pc # DomainOf(k) \/ outcome'[DomainOf(k)] = "failed")
               => Untouched(k)
         /\ (pc = DomainOf(k) /\ outcome'[DomainOf(k)] = "collected")
               => Reconciled(k)]_vars

\* the CPU fetch raised in this cycle: the sample of CPU 0 stored in an
\* earlier cycle is still there, and the bridge counter was reconciled
C11_Witness ==
    /\ outcome["cpu"] = "failed"
    /\ outcome["net"] = "collected"
    /\ 0 \in DOMAIN previous_cpu_samples
    /\ previous_cpu_samples[0].usage = 100
    /\ tx_bytes[<<"bridge", 0>>] = 1

\* C12: when a fetch answers with a snapshot that no longer holds a series
\* seen earlier (a CPU or interface id that disappeared), the step keeps the
\* stored raw value and the published counter of the series, and its entry
\* stays in the table of previous samples.
C12_StaleSeriesKept ==
    [][\A k \in CounterSeries :
         (/\ pc = DomainOf(k)
          /\ outcome'[DomainOf(k)] = "collected"
          /\ HasStored(k)
          /\ ~Seen(k)')
            => Untouched(k)]_vars

\* gate g was decided in this cycle
Decided(g) == caps_used[g].st = "ok"

\* C13: all capability-gated decisions made so far in a cycle (reboot
\* schedule, dual-WAN, Wi-Fi bands) used one and the same capability map.
C13_OneSnapshotPerCycle ==
    \A g \in Gates, h \in Gates :
      (Decided(g) /\ Decided(h)) => caps_used[g].caps = caps_used[h].caps

\* where the handler deciding gate g starts
GatePc(g) ==
    IF g = "reboot_schedule" THEN "start"
    ELSE IF g = "dualwan" THEN "wan" ELSE "wifi"

\* this step is the handler of gate g deciding it
Decides(g) == pc = GatePc(g) /\ pc' # pc /\ Decided(g)'

\* C14: every step that decides a gate uses the capability map the router
\* holds at that moment, so after a change between two cycles no decision
\* of the next cycle uses a map read in an earlier cycle.
C14_NoCachingAcrossCycles ==
    [][\A g \in Gates : Decides(g) => caps_used'[g].caps = ui_support]_vars

\* the first cycle found dual-WAN enabled; the flag then went to 0, and the
\* second cycle decided the reboot schedule with the new map
C14_Witness ==
    /\ cycle = 2
    /\ pc = "temp"
    /\ net_wan_info.st = "ok"
    /\ net_wan_info.mode = "rt"
    /\ net_wan_info.dual_wan_info.enabled
    /\ Decided("reboot_schedule")
    /\ caps_used["reboot_schedule"].caps = ui_support
    /\ "dualwan" \in DOMAIN ui_support
    /\ ui_support["dualwan"] = 0

\* feature names a gate may ask for; "5G" and "wifi6e" are in no map
Features == {"reboot_schedule", "dualwan", "2.4G", "5G", "wifi6e"}

\* both configured WAN origins are real ones
OriginsSet(info) ==
    "none" \notin { info.dual_wan_info.wan_origins[i] :
                      i \in DOMAIN info.dual_wan_info.wan_origins }

\* C15: is_supported(name) is true exactly when the map holds a nonzero
\* flag for name, so false for an absent key and for flag 0; and the
\* dual-WAN decision of a router with two real origins is that answer.
C15_IsSupported ==
    /\ \A f \in Features :
         is_supported(ui_support, f)
            <=> (f \in DOMAIN ui_support /\ ui_support[f] # 0)
    /\ (Decided("dualwan") /\ OriginsSet(net_wan_info))
         => (net_wan_info.dual_wan_info.enabled
               <=> /\ "dualwan" \in DOMAIN caps_used["dualwan"].caps
                   /\ caps_used["dualwan"].caps["dualwan"] # 0)

\* dual-WAN was decided on a map that reports dualwan with flag 0, for a
\* router with two real origins: not enabled
C15_Witness ==
    /\ Decided("dualwan")
    /\ OriginsSet(net_wan_info)
    /\ "dualwan" \in DOMAIN caps_used["dualwan"].caps
    /\ caps_used["dualwan"].caps["dualwan"] = 0
    /\ ~net_wan_info.dual_wan_info.enabled
    /\ ~is_supported(ui_support, "wifi6e")
    /\ is_supported(ui_support, "2.4G")

\* the WAN handler has run on what the router answered
WanAnswered == wan_nvram.st = "ok" /\ net_wan_info.st # "none"

\* the branches of get_sw_mode on the integers of the last answer
RulesOnAnswer ==
    SwModeRules(int(wan_nvram.sw_mode), safe_int(wan_nvram.wlc_psta),
                safe_int(wan_nvram.wlc_express))

\* C16: for sw_mode in {2,3,5}, psta in {0,1,2,3} and express in {0,1,2}
\* the mode classification raises nothing and returns one of the seven
\* modes, and it returns Router when no rule matches.
C16_SwModeTotal ==
    (/\ WanAnswered
     /\ wan_nvram.sw_mode \in {"2", "3", "5"}
     /\ wan_nvram.wlc_psta \in {"0", "1", "2", "3"}
     /\ wan_nvram.wlc_express \in {"0", "1", "2"})
       => /\ net_wan_info.st = "ok"
          /\ net_wan_info.mode \in SwMode
          /\ Matching(RulesOnAnswer) = {} => net_wan_info.mode = "rt"

\* sw_mode 2, psta 2, express 1 matches no rule and was classified Router
C16_Witness ==
    /\ WanAnswered
    /\ wan_nvram.sw_mode = "2"
    /\ wan_nvram.wlc_psta = "2"
    /\ wan_nvram.wlc_express = "1"
    /\ net_wan_info.st = "ok"
    /\ net_wan_info.mode = "rt"

\* the integers the mode fields can carry
FieldValues == { IntValues[s] : s \in DOMAIN IntValues }

\* C17, as stated: the mode table that classified the router's answer has
\* some (sw_mode, psta, express) satisfying the conditions of two different
\* rules.
C17_RulesOverlap ==
    WanAnswered
      => \E m \in FieldValues, p \in FieldValues, e \in FieldValues :
           Cardinality(Matching(SwModeRules(m, p, e))) >= 2

\* C17, amended: no (sw_mode, psta, express) satisfies the conditions of two
\* different rules, so the mode does not depend on the order of the rules:
\* a classified answer matches at most one rule, and when it matches one
\* the mode is that rule's.
C17_RulesExclusive ==
    /\ \A m \in FieldValues, p \in FieldValues, e \in FieldValues :
         Cardinality(Matching(SwModeRules(m, p, e))) <= 1
    /\ (WanAnswered /\ ~SwModeRaises(wan_nvram))
         => /\ Cardinality(Matching(RulesOnAnswer)) <= 1
            /\ \A i \in Matching(RulesOnAnswer) :
                 net_wan_info.st = "ok"
                    => net_wan_info.mode = RulesOnAnswer[i].mode

\* sw_mode 3, psta 0, express 1 matched the Access Point rule alone
C17_Witness ==
    /\ WanAnswered
    /\ wan_nvram.sw_mode = "3"
    /\ wan_nvram.wlc_psta = "0"
    /\ wan_nvram.wlc_express = "1"
    /\ Matching(RulesOnAnswer) = {2}
    /\ net_wan_info.st = "ok"
    /\ net_wan_info.mode = "ap"

\* C18: whatever (state, substate, auxstate, internet-link) values the
\* router answers, inside or outside the enumerations, classifying the
\* connection raises nothing: no failure of the WAN handler comes from the
\* Enum constructors of the connection fields.
C18_WanClassificationTotal ==
    (WanAnswered /\ net_wan_info.st = "raised")
       => net_wan_info.raised_by
             \notin {"get_wan_connection_info", "get_network_wan_info"}

\* the WAN handler classified the units of a router in router mode
WanClassified ==
    WanAnswered /\ net_wan_info.st = "ok" /\ net_wan_info.mode = "rt"

\* the raw fields of unit u are CONNECTED (2), OK (0), CONNECTED (0) and the
\* internet link is ONLINE (2)
RawHealthy(u) ==
    /\ int(wan_nvram.wan[u].state_t) = 2
    /\ int(wan_nvram.wan[u].sbstate_t) = 0
    /\ int(wan_nvram.wan[u].auxstate_t) = 0
    /\ int(wan_nvram.link_internet) = 2

\* C19: is_connected of a classified unit is true if and only if its state
\* is CONNECTED, its substate OK, its auxstate CONNECTED and the internet
\* link ONLINE; every other combination of enumerated values is not
\* connected, and a unit not on standby has status connected exactly then.
C19_IsConnected ==
    WanClassified =>
      LET primary == net_wan_info.primary_wan
          conn == primary.connection_info
      IN  /\ is_connected(conn)
               <=> /\ conn.state = "CONNECTED"
                   /\ conn.substate = "OK"
                   /\ conn.auxstate = "CONNECTED"
                   /\ conn.link_internet = "ONLINE"
          /\ is_connected(conn) <=> RawHealthy(0)
          /\ primary.status # "standby"
               => (primary.status = "connected" <=> RawHealthy(0))

\* unit 0 is CONNECTED / OK / CONNECTED but the internet link is TESTING:
\* not connected
C19_Witness ==
    /\ WanClassified
    /\ wan_nvram.wan[0] = [state_t |-> "2", sbstate_t |-> "0",
                           auxstate_t |-> "0", proto |-> "dhcp"]
    /\ wan_nvram.link_internet = "1"
    /\ net_wan_info.primary_wan.connection_info.link_internet = "TESTING"
    /\ net_wan_info.primary_wan.status = "disconnected"

\* the WanInfo of unit u in the last result, None when it was not queried
WanOf(u) ==
    IF u = 0 THEN net_wan_info.primary_wan ELSE net_wan_info.secondary_wan

\* the active unit the router reported to the get_wan_info call of unit u:
\* the first get_wan_unit call of the handler for unit 0, the third for 1
ActiveUnitRead(u) == Fetched(wan_nvram, IF u = 0 THEN 1 ELSE 3).wan_unit

\* C20: the status of a queried unit is standby if and only if dual-WAN is
\* enabled, the unit is not the active unit and the mode is fail-over or
\* fail-back; otherwise it is connected when the unit is healthy and
\* disconnected when it is not.  With dual-WAN enabled, active unit 0 and
\* fail-over, a healthy unit 1 is on standby.
C20_WanStatus ==
    WanClassified =>
      \A u \in {0, 1} :
        WanOf(u) # None =>
          LET dual == net_wan_info.dual_wan_info
              standby == /\ dual.enabled
                         /\ ActiveUnitRead(u) # u
                         /\ wan_nvram.wans_mode \in {"fo", "fb"}
          IN  /\ WanOf(u).status = "standby" <=> standby
              /\ ~standby =>
                   WanOf(u).status = IF RawHealthy(u) THEN "connected"
                                                      ELSE "disconnected"
              /\ (/\ dual.enabled /\ ActiveUnitRead(u) = 0 /\ u = 1
                  /\ wan_nvram.wans_mode = "fo" /\ RawHealthy(1))
                    => WanOf(u).status = "standby"

\* dual-WAN enabled, active unit 0, fail-over, unit 1 healthy: unit 1 is on
\* standby and unit 0 connected
C20_Witness ==
    /\ WanClassified
    /\ net_wan_info.dual_wan_info.enabled
    /\ wan_nvram.wan_unit = 0
    /\ wan_nvram.failover_at = 0
    /\ wan_nvram.wans_mode = "fo"
    /\ RawHealthy(0) /\ RawHealthy(1)
    /\ net_wan_info.secondary_wan.status = "standby"
    /\ net_wan_info.primary_wan.status = "connected"

\* C26: every step that observes a series stores the observed raw value,
\* also when it is lower than the one stored before, and no other step
\* changes a stored value; so the step after a regression measures from the
\* regressed value.
C26_StoredIsLastObserved ==
    [][\A k \in CounterSeries :
         /\ Observes(k) => (HasStored(k)' /\ StoredRaw(k)' = Raw(k)')
         /\ (~Observes(k) /\ HasStored(k) /\ HasStored(k)')
              => StoredRaw(k)' = StoredRaw(k)
         /\ (Observes(k) /\ HasStored(k) /\ Raw(k)' >= StoredRaw(k))
              => Increment(k) = Raw(k)' - StoredRaw(k)]_vars

\* CPU 0 was seen at (150, 250), then (90, 260), then (100, 200): the usage
\* that fell to 90 was stored, and the next step measured 100 - 90
C26_Witness ==
    /\ 0 \in DOMAIN previous_cpu_samples
    /\ previous_cpu_samples[0] = [usage |-> 100, total |-> 200]
    /\ cpu_usage_counter[0] = 10
    /\ cpu_total_counter[0] = 10

\* published counter minus stored raw value of series k
Offset(k) == Published(k) - StoredRaw(k)

\* this step is the handler of k's domain, and its fetch raised
FetchFailed(k) ==
    pc = DomainOf(k) /\ pc' # pc /\ outcome'[DomainOf(k)] = "failed"

\* C27: for a series whose raw values do not decrease, published counter =
\* last stored raw - first observed raw: it holds after the first
\* observation (counter 0, stored = first), an observation at or above the
\* stored value keeps the difference counter - stored, and so does a cycle
\* whose fetch failed, so that the next observation adds what was missed.
C27_AccumulatedIsLastMinusFirst ==
    [][\A k \in CounterSeries :
         /\ (Observes(k) /\ ~HasStored(k) /\ Published(k) = 0)
              => (Published(k)' = 0 /\ StoredRaw(k)' = Raw(k)')
         /\ (Observes(k) /\ HasStored(k) /\ Raw(k)' >= StoredRaw(k))
              => Offset(k)' = Offset(k)
         /\ (FetchFailed(k) /\ HasStored(k))
              => (HasStored(k)' /\ Offset(k)' = Offset(k))]_vars

\* the bridge was read at tx 1 and at tx 2 in two cycles, the network fetch
\* failed in the third of the three cycles, and the counter is 2 - 1
C27_Witness ==
    /\ cycle = 3
    /\ pc = "wan"
    /\ outcome["net"] = "collected"
    /\ DOMAIN previous_cpu_samples # {}
    /\ DOMAIN previous_network_samples # {}
    /\ previous_network_samples.bridge.tx = 2
    /\ tx_bytes[<<"bridge", 0>>] = 1

\* C30: when the temperature fetch of this cycle failed the temperature
\* gauge is NaN, and when the memory fetch failed the four memory gauges
\* are NaN: neither an earlier value nor 0.
C30_FailedGaugesAreNaN ==
    /\ outcome["temp"] = "failed" => cpu_temp = NaN
    /\ outcome["mem"] = "failed"
         => /\ memory_gauges.total = NaN
            /\ memory_gauges.used = NaN
            /\ memory_gauges.free = NaN
            /\ memory_gauges.used_pct = NaN

\* second cycle: the memory gauges still hold the first cycle's numbers,
\* the temperature fetch has just failed and its gauge is NaN
C30_Witness ==
    /\ cycle = 2
    /\ pc = "cpu"
    /\ outcome["temp"] = "failed"
    /\ cpu_temp = NaN
    /\ memory_gauges.total = Num(8 * 1024, 1)

(***************************************************************************)
(* The reboot schedule as the router's settings state it.                  *)
(***************************************************************************)
\* get_info() answered in this cycle with a supported and enabled schedule
ScheduleRead ==
    /\ outcome["info"] = "collected"
    /\ is_supported(caps_used["reboot_schedule"].caps, "reboot_schedule")
    /\ reboot_nvram.reboot_schedule_enable = "1"

\* the weekday digit of calendar weekday w: the string's first digit is the
\* mask's bit 6, so bit 6 - ((w + 1) mod 7) is digit ((w + 1) mod 7) + 1
DayEnabled(w) == reboot_nvram.reboot_schedule[((w + 1) % 7) + 1] = 1

\* the schedule's hh:mm:00 in seconds of the day
ScheduleSecs ==
    LET t == reboot_nvram.reboot_schedule
    IN  (10 * t[8] + t[9]) * 3600 + (10 * t[10] + t[11]) * 60

\* seconds from now to the schedule's time d days ahead
SecondsAhead(d) == d * 86400 + ScheduleSecs - systime.secs

\* offset d is a day of the schedule whose time has not passed
Occurs(d) == DayEnabled((systime.day + d) % 7) /\ SecondsAhead(d) >= 0

\* C22: the next occurrence is the schedule's hh:mm:00 on the first offset d
\* of 0..7 whose weekday is enabled, offset 0 only when that time is not
\* before now; no enabled time lies between now and it, it is not before
\* now, and until_ms is the distance in milliseconds.
C22_NextOccurrence ==
    (ScheduleRead /\ reboot_schedule # None) =>
        LET d == reboot_schedule.next_at.day - systime.day
        IN  /\ d \in 0..7
            /\ reboot_schedule.next_at.secs = ScheduleSecs
            /\ Occurs(d)
            /\ \A e \in 0..7 : e < d => ~Occurs(e)
            /\ reboot_schedule.until_ms = SecondsAhead(d) * 1000
            /\ reboot_schedule.until_ms >= 0

\* Wednesday only, 03:30, read on Tuesday at 03:00:00: Wednesday 03:30:00
C22_Witness ==
    /\ ScheduleRead
    /\ reboot_nvram.reboot_schedule = <<0, 0, 0, 1, 0, 0, 0, 0, 3, 3, 0>>
    /\ systime = [day |-> 1, secs |-> 10800]
    /\ reboot_schedule # None
    /\ reboot_schedule.next_at = [day |-> 2, secs |-> 12600]
    /\ reboot_schedule.until_ms = 88200000
    /\ next_reboot_seconds = Num(88200000, 1000)

\* C23: a supported and enabled schedule has no next occurrence exactly
\* when its seven weekday bits are all zero.
C23_NoneIffEmptyMask ==
    ScheduleRead =>
        (reboot_schedule = None
           <=> \A i \in 1..7 : reboot_nvram.reboot_schedule[i] = 0)

\* Tuesday only, 03:30, read on Tuesday at 03:30:01: the Tuesday after
C23_Witness ==
    /\ ScheduleRead
    /\ reboot_nvram.reboot_schedule = <<0, 0, 1, 0, 0, 0, 0, 0, 3, 3, 0>>
    /\ systime = [day |-> 1, secs |-> 12601]
    /\ reboot_schedule # None
    /\ reboot_schedule.next_at = [day |-> 8, secs |-> 12600]

(***************************************************************************)
(* The effective WAN protocol, from the router's raw answer.               *)
(***************************************************************************)
\* the origin of unit u in the raw wans_dualwan
RawOrigin(u) == wan_nvram.wans_dualwan[u + 1]

\* the raw DSL settings are ATM with PPPoA or IPoA
RawDslPairing ==
    wan_nvram.dslx_transmode = "atm" /\ wan_nvram.dsl0_proto \in {"pppoa", "ipoa"}

\* the WanProtoType member of value v
ProtoNamed(v) == IF v \in DOMAIN WanProtoType THEN WanProtoType[v] ELSE "None"

\* the capabilities the WAN handler of this cycle read
WanCaps == caps_used["dualwan"].caps

\* the WAN handler of this cycle classified the units
ClassifiedNow == WanClassified /\ outcome["wan"] = "collected"

\* C21, as stated: the protocol of every queried unit is the USB value when
\* its origin is USB, the DSL protocol when its origin is DSL with ATM and
\* PPPoA or IPoA, and its raw protocol otherwise.
C21_ProtoByOriginAlone ==
    ClassifiedNow =>
      \A u \in {0, 1} :
        WanOf(u) # None =>
          WanOf(u).proto =
            IF RawOrigin(u) = "usb" THEN "USB"
            ELSE IF RawOrigin(u) = "dsl" /\ RawDslPairing
            THEN ProtoNamed(wan_nvram.dsl0_proto)
            ELSE ProtoNamed(wan_nvram.wan[u].proto)

\* C21, amended: a queried unit has a protocol only when its status is
\* connected; then it is the USB value when the origin is USB and the
\* capability "usbX" is supported, the DSL protocol when that is not so,
\* the origin is DSL, "dsl" is supported and the DSL settings are ATM with
\* PPPoA or IPoA, and the raw protocol in every other case, among them a
\* DSL origin with any other pairing.
C21_ProtoOfConnectedUnit ==
    ClassifiedNow =>
      \A u \in {0, 1} :
        WanOf(u) # None =>
          LET usb == RawOrigin(u) = "usb" /\ is_supported(WanCaps, "usbX")
              dsl == /\ ~usb
                     /\ RawOrigin(u) = "dsl" /\ is_supported(WanCaps, "dsl")
                     /\ RawDslPairing
          IN  /\ WanOf(u).status # "connected" => WanOf(u).proto = "None"
              /\ WanOf(u).status = "connected" =>
                   WanOf(u).proto =
                     IF usb THEN "USB"
                     ELSE IF dsl THEN ProtoNamed(wan_nvram.dsl0_proto)
                     ELSE ProtoNamed(wan_nvram.wan[u].proto)

\* unit 0 is connected over DSL, "dsl" is supported, the settings are PTM
\* with PPPoA: the raw protocol pppoe is kept
C21_Witness ==
    /\ ClassifiedNow
    /\ RawOrigin(0) = "dsl"
    /\ is_supported(WanCaps, "dsl")
    /\ wan_nvram.dslx_transmode = "ptm"
    /\ wan_nvram.dsl0_proto = "pppoa"
    /\ wan_nvram.wan[0].proto = "pppoe"
    /\ net_wan_info.primary_wan.status = "connected"
    /\ net_wan_info.primary_wan.proto = "PPPoE"

(***************************************************************************)
(* The Wi-Fi bands, from the capabilities the wireless handler read.       *)
(***************************************************************************)
\* the flag of feature f is set in the capabilities the handler read
BandGate(f) ==
    LET caps == caps_used["wireless"].caps
    IN  f \in DOMAIN caps /\ caps[f] # 0

\* C24: when the wireless handler answered, each band was fetched, and its
\* field is populated, exactly when the capabilities the handler read have
\* the band's flag set: '2.4G', '5G', '5G-2', 'wifi6e' for units 0..3; an
\* unsupported band was not fetched and its field is None.
C24_BandsByGate ==
    outcome["wifi"] = "collected" =>
        /\ (0 \in wireless_info.band_fetches) <=> BandGate("2.4G")
        /\ (1 \in wireless_info.band_fetches) <=> BandGate("5G")
        /\ (2 \in wireless_info.band_fetches) <=> BandGate("5G-2")
        /\ (3 \in wireless_info.band_fetches) <=> BandGate("wifi6e")
        /\ (wireless_info.band_2G_info # None) <=> BandGate("2.4G")
        /\ (wireless_info.band_5G_info # None) <=> BandGate("5G")
        /\ (wireless_info.band_5G_2_info # None) <=> BandGate("5G-2")
        /\ (wireless_info.band_6G_info # None) <=> BandGate("wifi6e")

\* the map has '2.4G' at 0 and 'wifi6e' at 1: only unit 3 was fetched
C24_Witness ==
    /\ outcome["wifi"] = "collected"
    /\ "2.4G" \in DOMAIN caps_used["wireless"].caps
    /\ ~BandGate("2.4G")
    /\ BandGate("wifi6e")
    /\ wireless_info.band_fetches = {3}
    /\ wireless_info.band_2G_info = None
    /\ wireless_info.band_6G_info # None

(***************************************************************************)
(* One-hot families.                                                       *)
(***************************************************************************)
\* the value of the child of label l, -1 when it was never set
Child(children, gauge, base, l) ==
    IF <<gauge, base>> \notin DOMAIN children THEN -1
    ELSE LET i == CHOOSE j \in 1..Len(OneHotFamilies[gauge]) :
                       OneHotFamilies[gauge][j].label = l
         IN  children[<<gauge, base>>][i]

\* the labels of a family
Labels(gauge) ==
    { OneHotFamilies[gauge][i].label : i \in 1..Len(OneHotFamilies[gauge]) }

\* the labels of the family whose child is at 1
Ones(children, gauge, base) ==
    { l \in Labels(gauge) : Child(children, gauge, base, l) = 1 }

\* every variant of the family has a child, at 0 or 1
Complete(children, gauge, base) ==
    \A l \in Labels(gauge) : Child(children, gauge, base, l) \in {0, 1}

\* exactly the variant of label l is at 1, every other at 0
OneHotAt(children, gauge, base, l) ==
    Complete(children, gauge, base) /\ Ones(children, gauge, base) = {l}

AllZero(children, gauge, base) ==
    Complete(children, gauge, base) /\ Ones(children, gauge, base) = {}

\* the label of the documented name of each raw value
RawLabel ==
    [wan_state |-> ("0" :> "IDLE") @@ ("1" :> "CONNECTING") @@
                   ("2" :> "CONNECTED") @@ ("4" :> "ERROR") @@
                   ("5" :> "DISABLED"),
     wan_substate |-> ("0" :> "OK") @@ ("1" :> "PPP_FAIL") @@
                      ("2" :> "BAD_CREDENTIALS") @@ ("3" :> "DHCP_FAIL") @@
                      ("4" :> "IP_CONFLICT"),
     wan_auxstate |-> ("0" :> "CONNECTED") @@ ("1" :> "DISCONNECTED")]

RawField == [wan_state |-> "state_t", wan_substate |-> "sbstate_t",
             wan_auxstate |-> "auxstate_t"]

\* C25: after the info handler answered the mode family has exactly one
\* variant at 1, the mode's; after the WAN handler answered, the state,
\* substate, auxstate and status families of a queried unit and the dual-WAN
\* mode family have exactly one variant at 1, the one the router reported,
\* and every other variant at 0; the families of a unit that was not
\* queried, and the mode family without a dual-WAN summary, are all 0.
C25_OneHot ==
    /\ outcome["info"] = "collected" =>
         /\ Cardinality(Ones(router_mode, "router_mode",
                             router_info.product_id)) = 1
         /\ OneHotAt(router_mode, "router_mode", router_info.product_id,
                     IF router_info.sw_mode = "3" THEN "AP" ELSE "RT")
    /\ outcome["wan"] = "collected" =>
         /\ IF net_wan_info.dual_wan_info # None
            THEN OneHotAt(wans, "dualwan_mode", "", wan_nvram.wans_mode)
            ELSE AllZero(wans, "dualwan_mode", "")
         /\ \A u \in {0, 1} :
              LET unit == IF u = 0 THEN "0" ELSE "1"
              IN  IF WanOf(u) # None
                  THEN /\ \A g \in DOMAIN RawLabel :
                            OneHotAt(wans, g, unit,
                                     RawLabel[g][wan_nvram.wan[u][RawField[g]]])
                       /\ OneHotAt(wans, "wan_status", unit, WanOf(u).status)
                  ELSE \A g \in DOMAIN RawLabel \cup {"wan_status"} :
                            AllZero(wans, g, unit)

\* second cycle: the router has one unit only, the four families of unit 1
\* are all 0, and unit 0 has CONNECTED at 1; the mode gauge is at AP
C25_Witness ==
    /\ cycle = 2
    /\ outcome["wan"] = "collected"
    /\ router_info.sw_mode = "3"
    /\ OneHotAt(router_mode, "router_mode", "RT-AX88U", "AP")
    /\ net_wan_info.secondary_wan = None
    /\ net_wan_info.primary_wan # None
    /\ AllZero(wans, "wan_status", "1")
    /\ AllZero(wans, "wan_state", "1")
    /\ OneHotAt(wans, "wan_state", "0", "CONNECTED")
    /\ OneHotAt(wans, "wan_status", "0", "connected")

\* C28: after the WAN handler answered, at most one unit is published as
\* active.
C28_AtMostOneActive ==
    outcome["wan"] = "collected" =>
        ~(/\ wans[<<"wan_active", "0">>] = <<1>>
          /\ wans[<<"wan_active", "1">>] = <<1>>)

\* the families a scrape can see, per unit
ScrapedFamilies ==
    {"wan_auxstate", "wan_state", "wan_substate", "wan_status"} \X {"0", "1"}

\* C29: no scrape exposes a one-hot family with two variants at 1, nor a
\* family of unit 0, which every answer of the router has, with all its
\* variants exposed and none at 1.
C29_ScrapeSeesOneHot ==
    \A f \in ScrapedFamilies :
        /\ Cardinality(Ones(scraped, f[1], f[2])) <= 1
        /\ (f[2] = "0" /\ Complete(scraped, f[1], f[2]))
              => Cardinality(Ones(scraped, f[1], f[2])) = 1

====
